---- MODULE Spec2Model ----
(***************************************************************************)
(* Event-capture post-processing: the trace pipeline of                    *)
(* post_processing/process_trace.py (split, sort, reduce, pair, stats,     *)
(* output generation), the ICL variant of icl/create_prompt.py, the        *)
(* action-string codec and the milestone scorer of                         *)
(* post_processing/milestone_evaluation.py.                                *)
(*                                                                         *)
(* Python strings are sequences of one-character strings, Python lists are *)
(* sequences (1-based here, 0-based in the source), dicts with optional    *)
(* keys are records with a has_<key> flag beside the key.                  *)
(***************************************************************************)
EXTENDS Integers, Sequences, FiniteSets, TLC

\* ------------------------------------------------------------- bounds
\* Longest trace (number of raw events) the pipeline is run on.
MaxEvents == 4
\* Longest event log the Reducer alone is run on.
MaxLog == 5
\* Longest action list and observation list the Pairer alone is run on, and
\* the largest timestamp in them.
MaxActs == 3
MaxObs == 3
MaxTime == 4
\* Longest milestone list and longest agent trajectory the scorer is run on.
MaxMilestones == 2
MaxActions == 3
\* The evaluation drivers: the step limit (MAX_STEPS / max_steps) and the
\* repetition limit (MAX_REPEATED / max_repeated_actions), scaled down.
MaxSteps == 3
MaxRepeated == 2

\* TIMEOUT, in ticks of the model's clock.
Timeout == 2

\* run_comparison: how many of the SEEDS are run, and the size of the pool.
MaxSeeds == 1
PARALLEL_WORKERS == 3

\* Longest events list of a trace document given to the TraceVerifier.
MaxDocEvents == 2

\* ------------------------------------------------------------ helpers
Range(s) == {s[i] : i \in DOMAIN s}

BoundedSeq(S, n) == UNION {[1..k -> S] : k \in 0..n}

\* dict[key] = val on a dict modelled as a function over its keys.
Put(d, key, val) == [k \in (DOMAIN d) \cup {key} |-> IF k = key THEN val ELSE d[k]]

EmptyDict == [k \in {} |-> <<>>]

RECURSIVE Concat(_)
\* "".join(parts)
Concat(parts) == IF parts = <<>> THEN <<>> ELSE Head(parts) \o Concat(Tail(parts))

IsSortedByTimestamp(s) == \A i \in 1..(Len(s) - 1) : s[i].timestamp <= s[i + 1].timestamp

\* ----------------------------------------------------- raw events
\* str.lower() / str.upper() on the tag names the traces carry.
Lower(tag) ==
  CASE tag = "INPUT" -> "input"
    [] tag = "SELECT" -> "select"
    [] tag = "BUTTON" -> "button"
    [] OTHER -> tag

Upper(tag) ==
  CASE tag = "input" -> "INPUT"
    [] tag = "select" -> "SELECT"
    [] tag = "button" -> "BUTTON"
    [] OTHER -> tag

Bid_a1 == <<"a", "1">>
Bid_s1 == <<"s", "1">>
Bid_b2 == <<"b", "2">>

\* One RawEvent. target/bid may be missing (has_target, has_bid); data, value,
\* tag, html read through dict.get with "" as default, so "" stands for absent.
\* html is the set of data-bid attribute values the serialized DOM carries.
\* final_value is the key the ICL reducer adds; "" stands for absent.
RawEvent(type, ts, hasTarget, hasBid, bid, tag, value, data, html) ==
  [type |-> type, timestamp |-> ts, has_target |-> hasTarget, has_bid |-> hasBid,
   bid |-> bid, tag |-> tag, value |-> value, data |-> data, html |-> html,
   final_value |-> <<>>]

\* The event shapes a recorded trace is drawn from. skew is the arrival
\* disorder of the shape: timestamps are "not guaranteed strictly increasing".
EventShapes ==
  << [type |-> "input", has_target |-> TRUE, has_bid |-> TRUE, bid |-> Bid_a1, tag |-> "input",
      value |-> <<"a">>, data |-> <<"a">>, html |-> {}, skew |-> 0],
     [type |-> "input", has_target |-> TRUE, has_bid |-> TRUE, bid |-> Bid_a1, tag |-> "input",
      value |-> <<"a", "b">>, data |-> <<"a", "b">>, html |-> {}, skew |-> 0],
     [type |-> "input", has_target |-> TRUE, has_bid |-> TRUE, bid |-> Bid_a1, tag |-> "input",
      value |-> <<"a", "b", "c">>, data |-> <<"a", "b", "c">>, html |-> {}, skew |-> 0],
     [type |-> "click", has_target |-> TRUE, has_bid |-> TRUE, bid |-> Bid_s1, tag |-> "SELECT",
      value |-> <<"o">>, data |-> <<>>, html |-> {}, skew |-> 0],
     [type |-> "change", has_target |-> TRUE, has_bid |-> TRUE, bid |-> Bid_s1, tag |-> "SELECT",
      value |-> <<"o">>, data |-> <<>>, html |-> {}, skew |-> 0],
     [type |-> "click", has_target |-> TRUE, has_bid |-> TRUE, bid |-> Bid_b2, tag |-> "BUTTON",
      value |-> <<>>, data |-> <<>>, html |-> {}, skew |-> 0],
     [type |-> "htmlCapture", has_target |-> FALSE, has_bid |-> FALSE, bid |-> <<>>, tag |-> "",
      value |-> <<>>, data |-> <<>>, html |-> {Bid_a1, Bid_s1}, skew |-> 0],
     [type |-> "htmlCapture", has_target |-> FALSE, has_bid |-> FALSE, bid |-> <<>>, tag |-> "",
      value |-> <<>>, data |-> <<>>, html |-> {Bid_b2}, skew |-> -3],
     [type |-> "load", has_target |-> FALSE, has_bid |-> FALSE, bid |-> <<>>, tag |-> "",
      value |-> <<>>, data |-> <<>>, html |-> {}, skew |-> 0],
     [type |-> "input", has_target |-> TRUE, has_bid |-> TRUE, bid |-> Bid_a1, tag |-> "input",
      value |-> <<"a", "b">>, data |-> <<>>, html |-> {}, skew |-> 0],
     [type |-> "input", has_target |-> TRUE, has_bid |-> TRUE, bid |-> Bid_a1, tag |-> "input",
      value |-> <<>>, data |-> <<"a">>, html |-> {}, skew |-> 0],
     [type |-> "click", has_target |-> TRUE, has_bid |-> FALSE, bid |-> <<>>, tag |-> "BUTTON",
      value |-> <<>>, data |-> <<>>, html |-> {}, skew |-> 0] >>

\* The k-th recorded event of a trace: shape sh stamped at 2k + 2 (+ its skew).
Stamp(sh, k) ==
  RawEvent(sh.type, 2 * k + 2 + sh.skew, sh.has_target, sh.has_bid, sh.bid, sh.tag,
           sh.value, sh.data, sh.html)

Traces(n) ==
  {[k \in DOMAIN shp |-> Stamp(EventShapes[shp[k]], k)] :
     shp \in BoundedSeq(DOMAIN EventShapes, n)}

\* Event logs as the Reducer receives them: interaction events that carry a
\* bid, in timestamp order.
InteractionShapes == {i \in DOMAIN EventShapes : EventShapes[i].has_bid}

EventLogs(n) ==
  {[k \in DOMAIN shp |-> Stamp(EventShapes[shp[k]], k)] :
     shp \in BoundedSeq(InteractionShapes, n)}

\* Action lists and observation lists as the Pairer receives them, in any order.
ActionAt(ts) == RawEvent("click", ts, TRUE, TRUE, Bid_b2, "BUTTON", <<>>, <<>>, {})

ObservationAt(ts) == RawEvent("htmlCapture", ts, FALSE, FALSE, <<>>, "", <<>>, <<>>, {Bid_b2})

ActionLists == {[k \in DOMAIN tss |-> ActionAt(tss[k])] : tss \in BoundedSeq(1..MaxTime, MaxActs)}

ObservationLists ==
  {[k \in DOMAIN tss |-> ObservationAt(tss[k])] : tss \in BoundedSeq(1..MaxTime, MaxObs)}

\* ------------------------------------------------------- the Splitter
\* process_trace.split_observation_and_event_logs: every non-capture entry is
\* an interaction event, whether or not it carries a target.
RECURSIVE SplitPT(_)
SplitPT(full_log) ==
  IF full_log = <<>> THEN [html_log |-> <<>>, event_log |-> <<>>]
  ELSE LET entry == Head(full_log)
           rest == SplitPT(Tail(full_log))
       IN IF entry.type = "htmlCapture"
          THEN [rest EXCEPT !.html_log = <<entry>> \o @]
          ELSE [rest EXCEPT !.event_log = <<entry>> \o @]

\* create_prompt.split_observation_and_event_logs: an entry without a target
\* is dropped.
RECURSIVE SplitICL(_)
SplitICL(full_log) ==
  IF full_log = <<>> THEN [html_log |-> <<>>, event_log |-> <<>>]
  ELSE LET entry == Head(full_log)
           rest == SplitICL(Tail(full_log))
       IN IF entry.type = "htmlCapture"
          THEN [rest EXCEPT !.html_log = <<entry>> \o @]
          ELSE IF entry.has_target
               THEN [rest EXCEPT !.event_log = <<entry>> \o @]
               ELSE rest

\* list.sort(key=lambda x: x["timestamp"]): a stable sort.
InsertByTimestamp(sorted, e) ==
  LET p == Cardinality({i \in DOMAIN sorted : sorted[i].timestamp <= e.timestamp})
  IN SubSeq(sorted, 1, p) \o <<e>> \o SubSeq(sorted, p + 1, Len(sorted))

RECURSIVE SortByTimestamp(_)
SortByTimestamp(s) ==
  IF s = <<>> THEN <<>>
  ELSE InsertByTimestamp(SortByTimestamp(SubSeq(s, 1, Len(s) - 1)), s[Len(s)])

\* -------------------------------------------------------- the Reducer
\* Capacity of the sliding window prev_bids.
WindowCapacity == 2

\* The accumulator of the grouping loop.
GroupInit == [prev_bids |-> <<>>, bid_events |-> EmptyDict, bid_history |-> <<>>,
              raised |-> FALSE]

\* GroupStepPT with the "if bid not in bid_history" test left out.
GroupStepNoHistoryTest(st, event) ==
  IF st.raised THEN st
  ELSE IF ~event.has_target \/ ~event.has_bid THEN [st EXCEPT !.raised = TRUE]
  ELSE
    LET bid == event.bid
        seen == bid \in Range(st.prev_bids)
        prev == IF seen THEN st.prev_bids ELSE Append(st.prev_bids, bid)
        grouped == IF seen THEN [st.bid_events EXCEPT ![bid] = Append(@, event)]
                   ELSE Put(st.bid_events, bid, <<event>>)
    IN [prev_bids |-> IF Len(prev) > WindowCapacity THEN Tail(prev) ELSE prev,
        bid_events |-> grouped, bid_history |-> Append(st.bid_history, bid),
        raised |-> FALSE]

\* One iteration of the grouping loop of process_trace.combine_and_map_events
\* (the copies in pair_obs_action.py and trace_to_bgym.py are the same):
\* event["target"]["bid"] raises KeyError when either key is missing.
GroupStepPT(st, event) ==
  IF st.raised THEN st
  ELSE IF ~event.has_target \/ ~event.has_bid THEN [st EXCEPT !.raised = TRUE]
  ELSE
    LET bid == event.bid
        hist == IF bid \in Range(st.bid_history) THEN st.bid_history
                ELSE Append(st.bid_history, bid)
        seen == bid \in Range(st.prev_bids)
        prev == IF seen THEN st.prev_bids ELSE Append(st.prev_bids, bid)
        grouped == IF seen THEN [st.bid_events EXCEPT ![bid] = Append(@, event)]
                   ELSE Put(st.bid_events, bid, <<event>>)
    IN [prev_bids |-> IF Len(prev) > WindowCapacity THEN Tail(prev) ELSE prev,
        bid_events |-> grouped, bid_history |-> hist, raised |-> FALSE]

\* The same iteration in create_prompt.combine_and_map_events: an event
\* without target or bid is skipped.
GroupStepICL(st, event) ==
  IF ~event.has_target \/ ~event.has_bid THEN st
  ELSE GroupStepPT(st, event)

RECURSIVE GroupPT(_)
GroupPT(log) ==
  IF log = <<>> THEN GroupInit
  ELSE GroupStepPT(GroupPT(SubSeq(log, 1, Len(log) - 1)), log[Len(log)])

RECURSIVE GroupICL(_)
GroupICL(log) ==
  IF log = <<>> THEN GroupInit
  ELSE GroupStepICL(GroupICL(SubSeq(log, 1, Len(log) - 1)), log[Len(log)])

\* The indices of evs whose type is in types, ascending.
OfType(evs, types) == {i \in DOMAIN evs : evs[i].type \in types}

Max(S) == CHOOSE x \in S : \A y \in S : y <= x

\* input/textarea branch of process_trace.combine_and_map_events: data is the
\* concatenation of the data of every input-type event; the last input-type
\* event is emitted with its data overwritten.
ReduceInputPT(evs) ==
  LET idx == OfType(evs, {"input"})
      data == Concat([i \in DOMAIN evs |-> IF i \in idx THEN evs[i].data ELSE <<>>])
  IN IF data = <<>> \/ idx = {} THEN <<>>
     ELSE <<[evs[Max(idx)] EXCEPT !.data = data]>>

RECURSIVE LastValue(_)
\* "val = data or target.value; if val: data = val" over the input-type events.
LastValue(evs) ==
  IF evs = <<>> THEN <<>>
  ELSE LET e == evs[Len(evs)]
           val == IF e.data # <<>> THEN e.data ELSE e.value
       IN IF e.type = "input" /\ val # <<>> THEN val
          ELSE LastValue(SubSeq(evs, 1, Len(evs) - 1))

\* input/textarea branch of create_prompt.combine_and_map_events: the last
\* non-empty value wins and is stored under final_value.
ReduceInputICL(evs) ==
  LET idx == OfType(evs, {"input"})
      data == LastValue(evs)
  IN IF data = <<>> \/ idx = {} THEN <<>>
     ELSE <<[evs[Max(idx)] EXCEPT !.final_value = data]>>

\* select branch: the last click event.
ReduceSelect(evs) ==
  LET idx == OfType(evs, {"click"})
  IN IF idx = {} THEN <<>> ELSE <<evs[Max(idx)]>>

\* any other tag: the last click / submit / pointerdown event.
ReduceOther(evs) ==
  LET idx == OfType(evs, {"click", "submit", "pointerdown"})
  IN IF idx = {} THEN <<>> ELSE <<evs[Max(idx)]>>

\* The events one bid contributes (none or one), by the tag of its first event.
ReduceBidPT(evs) ==
  LET tagName == Lower(evs[1].tag)
  IN IF tagName \in {"input", "textarea"} THEN ReduceInputPT(evs)
     ELSE IF tagName = "select" THEN ReduceSelect(evs)
     ELSE ReduceOther(evs)

ReduceBidICL(evs) ==
  LET tagName == Lower(evs[1].tag)
  IN IF tagName \in {"input", "textarea"} THEN ReduceInputICL(evs)
     ELSE IF tagName = "select" THEN ReduceSelect(evs)
     ELSE ReduceOther(evs)

\* The emission loop walking bid_history from its end.
EmitPTLastSeenFirst(st) ==
  Concat([k \in DOMAIN st.bid_history |->
            ReduceBidPT(st.bid_events[st.bid_history[Len(st.bid_history) + 1 - k]])])

\* The emission loop: one pass over bid_history.
EmitPT(st) == Concat([k \in DOMAIN st.bid_history |-> ReduceBidPT(st.bid_events[st.bid_history[k]])])

EmitICL(st) == Concat([k \in DOMAIN st.bid_history |-> ReduceBidICL(st.bid_events[st.bid_history[k]])])

\* combine_and_map_events as a whole: [raised, actions].
CombineAndMapEventsPT(log) ==
  LET st == GroupPT(log)
  IN IF st.raised THEN [raised |-> TRUE, actions |-> <<>>]
     ELSE [raised |-> FALSE, actions |-> EmitPT(st)]

CombineAndMapEventsICL(log) == [raised |-> FALSE, actions |-> EmitICL(GroupICL(log))]

\* last_event["data"] = data writes into the event object itself, which the
\* event log shares with the Reducer's output.
WriteBack(log, actions) ==
  [k \in DOMAIN log |->
     IF \E a \in Range(actions) : a.timestamp = log[k].timestamp /\ a.type = log[k].type
                                   /\ log[k].has_bid /\ a.bid = log[k].bid
     THEN CHOOSE a \in Range(actions) : a.timestamp = log[k].timestamp /\ a.type = log[k].type
                                        /\ a.bid = log[k].bid
     ELSE log[k]]

\* --------------------------------------------------------- the Pairer
\* AdvancePointer comparing with <= instead of <.
RECURSIVE AdvancePointerInclusive(_, _, _)
AdvancePointerInclusive(j, observations, ts) ==
  IF j + 1 <= Len(observations) /\ observations[j + 1].timestamp <= ts
  THEN AdvancePointerInclusive(j + 1, observations, ts)
  ELSE j

\* AdvancePointer as a scan from the last observation backwards, with the
\* comparison the wrong way round.
RECURSIVE ScanBack(_, _, _)
ScanBack(j, observations, ts) ==
  IF j > 1 /\ observations[j].timestamp < ts THEN ScanBack(j - 1, observations, ts) ELSE j

AdvancePointerBackwardScan(j, observations, ts) ==
  IF observations = <<>> THEN j ELSE ScanBack(Len(observations), observations, ts)

\* The while loop of pair_closest_before: from pointer j (1-based), advance
\* while the next observation is strictly earlier than ts.
RECURSIVE AdvancePointer(_, _, _)
AdvancePointer(j, observations, ts) ==
  IF j + 1 <= Len(observations) /\ observations[j + 1].timestamp < ts
  THEN AdvancePointer(j + 1, observations, ts)
  ELSE j

\* PairLoop with the guard "if j + 1 < len(observations)".
RECURSIVE PairLoopShortGuard(_, _, _)
PairLoopShortGuard(evs, observations, n) ==
  IF n = 0 THEN [j |-> 1, ans |-> <<>>]
  ELSE LET before == PairLoopShortGuard(evs, observations, n - 1)
           j == AdvancePointer(before.j, observations, evs[n].timestamp)
       IN [j |-> j,
           ans |-> IF j + 1 <= Len(observations)
                   THEN Append(before.ans, [obs |-> observations[j], event |-> evs[n],
                                            obs_index |-> j])
                   ELSE before.ans]

\* The for loop of pair_closest_before over evs[1..n]: [j, ans]. A pair is
\* the tuple (observation, event); obs_index records the pointer it was read at.
RECURSIVE PairLoop(_, _, _)
PairLoop(evs, observations, n) ==
  IF n = 0 THEN [j |-> 1, ans |-> <<>>]
  ELSE LET before == PairLoop(evs, observations, n - 1)
           j == AdvancePointer(before.j, observations, evs[n].timestamp)
       IN [j |-> j,
           ans |-> IF j <= Len(observations)
                   THEN Append(before.ans, [obs |-> observations[j], event |-> evs[n],
                                            obs_index |-> j])
                   ELSE before.ans]

PairClosestBefore(evs, observations) == PairLoop(evs, observations, Len(evs)).ans

\* check_bid_in_html: an element with data-bid = data_bid exists in the DOM.
CheckBidInHtml(html, data_bid) == data_bid \in html

\* ----------------------------------------------------- the Normalizer
\* process_trace.event_to_bgym_action (and pair_obs_action / trace_to_bgym).
\* Absent keys of the action dict are "" here.
EventToBgymActionPT(event) ==
  LET tag == Upper(event.tag)
  IN IF tag = "SELECT"
     THEN [action |-> "select_option", data_bid |-> event.bid, option |-> event.value,
           value |-> <<>>]
     ELSE IF tag \in {"INPUT", "TEXTAREA"}
     THEN [action |-> "fill", data_bid |-> event.bid, value |-> event.value, option |-> <<>>]
     ELSE [action |-> "click", data_bid |-> event.bid, value |-> <<>>, option |-> <<>>]

\* create_prompt.event_to_bgym_action: value = final_value or target.value.
EventToBgymActionICL(event) ==
  LET tag == Upper(event.tag)
  IN IF tag = "SELECT"
     THEN [action |-> "select_option", data_bid |-> event.bid, option |-> event.value,
           value |-> <<>>]
     ELSE IF tag \in {"INPUT", "TEXTAREA"}
     THEN [action |-> "fill", data_bid |-> event.bid, option |-> <<>>,
           value |-> IF event.final_value # <<>> THEN event.final_value ELSE event.value]
     ELSE [action |-> "click", data_bid |-> event.bid, value |-> <<>>, option |-> <<>>]

\* StepOf without the + 1.
StepOfZeroBased(idx) == idx

\* action["step"] = idx + 1 for idx, event in enumerate(key_events).
StepOf(idx) == idx + 1

\* The loop of generate_bgym_actions (and of trace_to_bgym_actions).
GenerateBgymActions(evs) ==
  [i \in DOMAIN evs |->
     [action |-> EventToBgymActionPT(evs[i]), step |-> StepOf(i - 1),
      timestamp |-> evs[i].timestamp, event_type |-> evs[i].type]]

\* The loop of create_prompt.extract_bgym_actions.
ExtractBgymActions(evs) ==
  [i \in DOMAIN evs |->
     [action |-> EventToBgymActionICL(evs[i]), step |-> StepOf(i - 1),
      timestamp |-> evs[i].timestamp, event_type |-> evs[i].type]]

\* The loop of generate_paired_trajectory.
GeneratePairedTrajectory(prs) ==
  [i \in DOMAIN prs |->
     [step |-> StepOf(i - 1), action |-> EventToBgymActionPT(prs[i].event),
      bid_found_in_html |-> CheckBidInHtml(prs[i].obs.html, prs[i].event.bid),
      event_type |-> prs[i].event.type, event_timestamp |-> prs[i].event.timestamp,
      observation |-> [timestamp |-> prs[i].obs.timestamp]]]

\* ---------------------------------------------------------- statistics
\* RatioPct without the "if d > 0 else 0" guard.
RatioPctUnguarded(n, d) ==
  IF d = 0 THEN [ok |-> FALSE, tenths |-> 0]
  ELSE [ok |-> TRUE, tenths |-> (2000 * n + d) \div (2 * d)]

\* (n / d * 100) if d > 0 else 0, rounded to one decimal: in tenths of a
\* percent. ok = FALSE stands for ZeroDivisionError.
RatioPct(n, d) ==
  IF d > 0 THEN [ok |-> TRUE, tenths |-> (2000 * n + d) \div (2 * d)]
  ELSE [ok |-> TRUE, tenths |-> 0]

\* The stats taking total_pairs from the observation count.
ComputeStatsPairsFromObservations(log, observations, evs, prs) ==
  LET valid == Cardinality({i \in DOMAIN prs : CheckBidInHtml(prs[i].obs.html, prs[i].event.bid)})
      obs_event_ratio == RatioPct(Len(observations), Len(evs))
      valid_pair_ratio == RatioPct(valid, Len(prs))
  IN [ok |-> obs_event_ratio.ok /\ valid_pair_ratio.ok,
      total_raw_events |-> Len(log), total_observations |-> Len(observations),
      total_key_events |-> Len(evs), total_pairs |-> Len(observations), valid_pairs |-> valid,
      obs_event_ratio_pct |-> obs_event_ratio.tenths,
      valid_pair_ratio_pct |-> valid_pair_ratio.tenths,
      missing_bid_ratio_pct |-> 1000 - valid_pair_ratio.tenths]

\* The statistics block of process_trace (and pair_obs_actions).
ComputeStats(log, observations, evs, prs) ==
  LET valid == Cardinality({i \in DOMAIN prs : CheckBidInHtml(prs[i].obs.html, prs[i].event.bid)})
      obs_event_ratio == RatioPct(Len(observations), Len(evs))
      valid_pair_ratio == RatioPct(valid, Len(prs))
  IN [ok |-> obs_event_ratio.ok /\ valid_pair_ratio.ok,
      total_raw_events |-> Len(log), total_observations |-> Len(observations),
      total_key_events |-> Len(evs), total_pairs |-> Len(prs), valid_pairs |-> valid,
      obs_event_ratio_pct |-> obs_event_ratio.tenths,
      valid_pair_ratio_pct |-> valid_pair_ratio.tenths,
      missing_bid_ratio_pct |-> 1000 - valid_pair_ratio.tenths]

NoStats == [ok |-> TRUE, total_raw_events |-> 0, total_observations |-> 0,
            total_key_events |-> 0, total_pairs |-> 0, valid_pairs |-> 0,
            obs_event_ratio_pct |-> 0, valid_pair_ratio_pct |-> 0,
            missing_bid_ratio_pct |-> 0]

\* ------------------------------------------------ the action-string codec
DQ == "\""
SQ == "'"

IsQuote(c) == c \in {SQ, DQ}

\* s[i], or "" past either end.
CharAt(s, i) == IF i \in DOMAIN s THEN s[i] ELSE ""

StartsWith(s, prefix) == Len(s) >= Len(prefix) /\ SubSeq(s, 1, Len(prefix)) = prefix

RECURSIVE Strip(_)
\* str.strip() for the blank character.
Strip(s) ==
  IF s # <<>> /\ Head(s) = " " THEN Strip(Tail(s))
  ELSE IF s # <<>> /\ s[Len(s)] = " " THEN Strip(SubSeq(s, 1, Len(s) - 1))
  ELSE s

Name_click == <<"c", "l", "i", "c", "k">>
Name_fill == <<"f", "i", "l", "l">>
Name_select_option == <<"s", "e", "l", "e", "c", "t", "_", "o", "p", "t", "i", "o", "n">>

\* ['\"]? at position p: the quote is consumed when there is one (the group
\* that follows cannot start with a quote).
SkipQuote(s, p) == IF IsQuote(CharAt(s, p)) THEN p + 1 ELSE p

\* The end of the longest run of [^'\"] characters starting at b (b - 1 when
\* there is none).
RunEnd(s, b) == Max({e \in (b - 1)..Len(s) : \A k \in b..e : ~IsQuote(s[k])})

\* \s* at position p: greedy, and what follows is never a blank.
SkipSpaces(s, p) == Max({q \in p..(Len(s) + 1) : \A k \in p..(q - 1) : s[k] = " "})

NoMatch == [ok |-> FALSE, g1 |-> <<>>, g2 |-> <<>>]

\* re.match(r"click\(['\"]?([^'\"]+)['\"]?\)", s): group 1 is the longest
\* prefix of the run that an optional quote and ")" follow.
ClickMatch(s) ==
  IF ~StartsWith(s, Name_click \o <<"(">>) THEN NoMatch
  ELSE LET b == SkipQuote(s, Len(Name_click) + 2)
           ends == {e \in b..RunEnd(s, b) : CharAt(s, SkipQuote(s, e + 1)) = ")"}
       IN IF ends = {} THEN NoMatch
          ELSE [ok |-> TRUE, g1 |-> SubSeq(s, b, Max(ends)), g2 |-> <<>>]

\* re.match(name + r"\(['\"]?([^'\"]+)['\"]?,\s*['\"](.+)['\"]\)", s): the
\* ends of group 2 that go with group 1 ending at e.
ValueEnds(s, e) ==
  LET comma == SkipQuote(s, e + 1)
      open == SkipSpaces(s, comma + 1)
  IN IF CharAt(s, comma) = "," /\ IsQuote(CharAt(s, open))
     THEN {m \in (open + 1)..Len(s) : IsQuote(CharAt(s, m + 1)) /\ CharAt(s, m + 2) = ")"}
     ELSE {}

ValueStart(s, e) == SkipSpaces(s, SkipQuote(s, e + 1) + 1) + 1

TwoArgMatch(name, s) ==
  IF ~StartsWith(s, name \o <<"(">>) THEN NoMatch
  ELSE LET b == SkipQuote(s, Len(name) + 2)
           ends == {e \in b..RunEnd(s, b) : ValueEnds(s, e) # {}}
       IN IF ends = {} THEN NoMatch
          ELSE LET e == Max(ends)
               IN [ok |-> TRUE, g1 |-> SubSeq(s, b, e),
                   g2 |-> SubSeq(s, ValueStart(s, e), Max(ValueEnds(s, e)))]

\* parse_action: has_value = FALSE stands for value None / no value key.
ParseAction(action_str) ==
  LET s == Strip(action_str)
      fill_match == TwoArgMatch(Name_fill, s)
      select_match == TwoArgMatch(Name_select_option, s)
      click_match == ClickMatch(s)
  IN IF fill_match.ok
     THEN [type |-> "fill", bid |-> fill_match.g1, value |-> fill_match.g2, has_value |-> TRUE]
     ELSE IF select_match.ok
     THEN [type |-> "select_option", bid |-> select_match.g1, value |-> select_match.g2,
           has_value |-> TRUE]
     ELSE IF click_match.ok
     THEN [type |-> "click", bid |-> click_match.g1, value |-> <<>>, has_value |-> FALSE]
     ELSE [type |-> "unknown", bid |-> <<>>, value |-> <<>>, has_value |-> FALSE]

RECURSIVE EscapeQuotes(_)
\* value.replace('"', '\\"')
EscapeQuotes(value) ==
  IF value = <<>> THEN <<>>
  ELSE (IF Head(value) = DQ THEN <<"\\", DQ>> ELSE <<Head(value)>>) \o EscapeQuotes(Tail(value))

NameOf(action_type) ==
  CASE action_type = "click" -> Name_click
    [] action_type = "fill" -> Name_fill
    [] action_type = "select_option" -> Name_select_option

\* GenerateActionCode with no blank after the comma.
GenerateActionCodeNoBlank(action) ==
  IF action.action = "click"
  THEN Name_click \o <<"(", DQ>> \o action.data_bid \o <<DQ, ")">>
  ELSE NameOf(action.action) \o <<"(", DQ>> \o action.data_bid \o <<DQ, ",", DQ>>
       \o EscapeQuotes(IF action.action = "fill" THEN action.value ELSE action.option)
       \o <<DQ, ")">>

\* create_prompt.generate_action_code, for the three supported kinds.
GenerateActionCode(action) ==
  IF action.action = "click"
  THEN Name_click \o <<"(", DQ>> \o action.data_bid \o <<DQ, ")">>
  ELSE NameOf(action.action) \o <<"(", DQ>> \o action.data_bid \o <<DQ, ",", " ", DQ>>
       \o EscapeQuotes(IF action.action = "fill" THEN action.value ELSE action.option)
       \o <<DQ, ")">>

\* The code line of process_trace.generate_context_prompt: no escaping.
GenerateContextCode(action) ==
  IF action.action = "click"
  THEN Name_click \o <<"(", DQ>> \o action.data_bid \o <<DQ, ")">>
  ELSE NameOf(action.action) \o <<"(", DQ>> \o action.data_bid \o <<DQ, ",", " ", DQ>>
       \o (IF action.action = "fill" THEN action.value ELSE action.option)
       \o <<DQ, ")">>

\* The Action record a parsed action string stands for (decode's type/bid/value
\* keys renamed to the Normalizer's action/data_bid/value/option keys).
ParsedToAction(parsed_action) ==
  [action |-> parsed_action.type, data_bid |-> parsed_action.bid,
   value |-> parsed_action.value, option |-> parsed_action.value]

\* Action strings: kind(<q1>bid<q1><sep><q2>value<q2>), q1 possibly absent.
BuildActionString(kind, bidQuote, bid, sep, valQuote, value) ==
  IF kind = "click" THEN Name_click \o <<"(">> \o bidQuote \o bid \o bidQuote \o <<")">>
  ELSE NameOf(kind) \o <<"(">> \o bidQuote \o bid \o bidQuote \o sep
       \o valQuote \o value \o valQuote \o <<")">>

CodecBids == {Bid_a1, <<"7">>}

PlainValues == {<<"x">>, <<"S", "N", "-", "1">>, <<"a", " ", "b">>}

CodecValues == PlainValues \cup {<<>>, <<"i", "t", SQ, "s">>, <<"a", DQ, "b">>}

ActionStrings ==
  {BuildActionString(kind, bq, bid, sep, vq, value) :
     kind \in {"click", "fill", "select_option"}, bq \in {<<DQ>>, <<SQ>>, <<>>},
     bid \in CodecBids, sep \in {<<",", " ">>, <<",">>}, vq \in {<<DQ>>, <<SQ>>},
     value \in CodecValues}

\* -------------------------------------------------- the Milestone Scorer
UppercaseLetters == <<"A", "B", "C", "D", "E", "F", "G", "H", "I", "J", "K", "L", "M", "N", "O", "P", "Q", "R", "S", "T", "U", "V", "W", "X", "Y", "Z">>

LowercaseLetters == <<"a", "b", "c", "d", "e", "f", "g", "h", "i", "j", "k", "l", "m", "n", "o", "p", "q", "r", "s", "t", "u", "v", "w", "x", "y", "z">>

LowerChar(c) ==
  IF \E i \in DOMAIN UppercaseLetters : UppercaseLetters[i] = c
  THEN LowercaseLetters[CHOOSE i \in DOMAIN UppercaseLetters : UppercaseLetters[i] = c]
  ELSE c

\* str.lower()
LowerStr(str) == [i \in DOMAIN str |-> LowerChar(str[i])]

\* needle in hay
Contains(hay, needle) ==
  \E i \in 1..(Len(hay) - Len(needle) + 1) : SubSeq(hay, i, i + Len(needle) - 1) = needle

RECURSIVE SplitOn(_, _)
\* str.split(sep) for a one-character sep
SplitOn(str, sep) ==
  IF \A i \in DOMAIN str : str[i] # sep THEN <<str>>
  ELSE LET cut == CHOOSE i \in DOMAIN str :
                    str[i] = sep /\ \A k \in 1..(i - 1) : str[k] # sep
       IN <<SubSeq(str, 1, cut - 1)>> \o SplitOn(SubSeq(str, cut + 1, Len(str)), sep)

\* A milestone dict; has_value / has_pattern say whether the "value" /
\* "value_pattern" key is there. Scores are in tenths, weights in units.
Milestone(id, kind, hasValue, value, hasPattern, pattern) ==
  [id |-> id, action |-> kind, has_value |-> hasValue, value |-> value,
   has_pattern |-> hasPattern, value_pattern |-> pattern, weight |-> 1]

\* The shapes of the entries of MILESTONES: a click on a field (id 1), a click
\* on an option with alternatives (id 3), a plain fill (id 7), a fill with a
\* value pattern (id 9).
MilestoneShapes ==
  << [action |-> "click", has_value |-> FALSE, value |-> <<>>, has_pattern |-> FALSE,
      value_pattern |-> <<>>],
     [action |-> "click", has_value |-> TRUE, value |-> <<"M", "a", "c", "B", "o", "o", "k", "|", "A", "p", "p", "l", "e">>,
      has_pattern |-> FALSE, value_pattern |-> <<>>],
     [action |-> "fill", has_value |-> FALSE, value |-> <<>>, has_pattern |-> FALSE,
      value_pattern |-> <<>>],
     [action |-> "fill", has_value |-> FALSE, value |-> <<>>, has_pattern |-> TRUE,
      value_pattern |-> <<"S", "N", "-">>] >>

\* Milestone lists: ids are the positions, as in MILESTONES.
MilestoneLists ==
  {[k \in DOMAIN shp |->
      Milestone(k, MilestoneShapes[shp[k]].action, MilestoneShapes[shp[k]].has_value,
                MilestoneShapes[shp[k]].value, MilestoneShapes[shp[k]].has_pattern,
                MilestoneShapes[shp[k]].value_pattern)] :
     shp \in BoundedSeq(DOMAIN MilestoneShapes, MaxMilestones)}

\* The action strings an agent's trajectory is drawn from.
AgentActions ==
  << BuildActionString("click", <<SQ>>, Bid_a1, <<>>, <<>>, <<>>),
     BuildActionString("fill", <<SQ>>, Bid_a1, <<",", " ">>, <<SQ>>, <<"S", "N", "-", "1">>),
     BuildActionString("fill", <<DQ>>, Bid_a1, <<",", " ">>, <<DQ>>, <<"x">>),
     BuildActionString("select_option", <<SQ>>, Bid_s1, <<",", " ">>, <<SQ>>,
                       <<"a", "p", "p", "l", "e">>),
     <<"n", "o", "o", "p", "(", ")">> >>

Trajectories ==
  {[k \in DOMAIN pick |-> AgentActions[pick[k]]] :
     pick \in BoundedSeq(DOMAIN AgentActions, MaxActions)}

\* action_matches_milestone: [matched, score], score in tenths.
ActionMatchesMilestone(action, milestone) ==
  LET action_type == action.type
      value == IF action.has_value THEN action.value ELSE <<>>
      No == [matched |-> FALSE, score |-> 0]
      Yes(score) == [matched |-> TRUE, score |-> score]
  IN IF milestone.action = "fill" /\ action_type \notin {"fill", "select_option"} THEN No
     ELSE IF milestone.action = "click" /\ action_type \notin {"click", "select_option"} THEN No
     ELSE IF milestone.action = "fill" /\ value # <<>>
     THEN IF milestone.has_pattern
          THEN IF Contains(value, milestone.value_pattern) THEN Yes(10) ELSE Yes(5)
          ELSE Yes(7)
     ELSE IF milestone.action = "click" /\ milestone.has_value
     THEN IF value # <<>>
             /\ \E pattern \in Range(SplitOn(milestone.value, "|")) :
                  Contains(LowerStr(value), LowerStr(pattern))
          THEN Yes(10) ELSE No
     ELSE IF milestone.action = "click" /\ action_type = "click" THEN Yes(3)
     ELSE No

\* BestMilestone without "if m_idx in matched_milestones: continue".
RECURSIVE BestMilestoneAmongAll(_, _, _, _)
BestMilestoneAmongAll(action, milestone_list, matched, n) ==
  IF n = 0 THEN [idx |-> 0, score |-> 0]
  ELSE LET best == BestMilestoneAmongAll(action, milestone_list, matched, n - 1)
           m == ActionMatchesMilestone(action, milestone_list[n])
       IN IF m.matched /\ m.score > best.score
          THEN [idx |-> n, score |-> m.score]
          ELSE best

\* The inner loop keeping the later milestone on equal scores (>= for >).
RECURSIVE BestMilestoneLastOnTies(_, _, _, _)
BestMilestoneLastOnTies(action, milestone_list, matched, n) ==
  IF n = 0 THEN [idx |-> 0, score |-> 0]
  ELSE LET best == BestMilestoneLastOnTies(action, milestone_list, matched, n - 1)
           m == ActionMatchesMilestone(action, milestone_list[n])
       IN IF n \notin matched /\ m.matched /\ m.score >= best.score
          THEN [idx |-> n, score |-> m.score]
          ELSE best

\* The inner loop of evaluate_trajectory over milestones 1..n: the best
\* unmatched milestone (idx 0 when none; -1 in the source) and its score.
RECURSIVE BestMilestone(_, _, _, _)
BestMilestone(action, milestone_list, matched, n) ==
  IF n = 0 THEN [idx |-> 0, score |-> 0]
  ELSE LET best == BestMilestone(action, milestone_list, matched, n - 1)
           m == ActionMatchesMilestone(action, milestone_list[n])
       IN IF n \notin matched /\ m.matched /\ m.score > best.score
          THEN [idx |-> n, score |-> m.score]
          ELSE best

\* The assignment threshold (score > 0.3) and the completion threshold
\* (score >= 0.7), in tenths.
MatchThreshold == 3
CompletedThreshold == 7

\* milestone_details.sort(key=lambda x: x.milestone_id): a stable sort.
InsertById(sorted, d) ==
  LET p == Cardinality({i \in DOMAIN sorted : sorted[i].milestone_id <= d.milestone_id})
  IN SubSeq(sorted, 1, p) \o <<d>> \o SubSeq(sorted, p + 1, Len(sorted))

RECURSIVE SortById(_)
SortById(details) ==
  IF details = <<>> THEN <<>>
  ELSE InsertById(SortById(SubSeq(details, 1, Len(details) - 1)), details[Len(details)])

RECURSIVE SumWeights(_)
\* sum(m["weight"] for m in milestones)
SumWeights(milestone_list) ==
  IF milestone_list = <<>> THEN 0
  ELSE milestone_list[1].weight + SumWeights(Tail(milestone_list))

\* The MilestoneResult entries added for the milestones left unmatched.
UnmatchedDetails(milestone_list, matched) ==
  LET rest == SelectSeq(milestone_list, LAMBDA m : m.id \notin matched)
  IN [i \in DOMAIN rest |->
        [milestone_id |-> rest[i].id, completed |-> FALSE, partial_score |-> 0,
         action_index |-> -1]]

VARIABLES
  variant,      \* which script runs: "process_trace" or "create_prompt"
  pc,           \* position in the script
  events,       \* trace_data['events']
  html_log,     \* observations
  event_log,    \* interaction events
  key_events,   \* the Reducer's output
  pairs,        \* the Pairer's output
  stats,        \* diagnostic statistics
  bgym_actions, \* the Action list
  trajectory,   \* the paired trajectory
  exc           \* the exception that ended the run, "" when none

VARIABLES
  codec_pc,     \* position in decode-then-encode: "input", "parsed", "encoded"
  encoder,      \* which script encodes: "create_prompt" or "process_trace"
  action_str,   \* the action string s
  parsed,       \* parse_action(s)
  encoded       \* the action code generated from parsed

VARIABLES
  scorer_pc,               \* position in evaluate_trajectory: "loop", "done"
  actions,                 \* the agent's action strings
  milestones,              \* the milestone list
  action_idx,              \* the loop index over parsed_actions (1-based)
  matched_milestones,      \* indices of the milestones already matched
  matched_action_indices,  \* indices of the actions already assigned
  milestone_details,       \* results["milestone_details"]
  completed_milestones,    \* results["completed_milestones"]
  partial_score,           \* results["partial_score"], in tenths
  score_percentage         \* results["score_percentage"], rounded down

\* ------------------------------------------------------- the TraceVerifier
REQUIRED_TOP_LEVEL_FIELDS == <<"id", "events", "startUrl">>

\* One event of a trace document as the verifier reads it: which keys it has
\* (type, timestamp, target, target.tag, target.a11y), the state of target.bid
\* ("absent", "empty", "ok") and of html ("absent", "empty", "short", "ok":
\* longer than 100 characters).
DocEvent(type, hasTs, ts, hasTarget, bid, hasTag, hasA11y, html) ==
  [has_type |-> TRUE, type |-> type, has_timestamp |-> hasTs, timestamp |-> ts,
   has_target |-> hasTarget, bid |-> bid, has_tag |-> hasTag, has_a11y |-> hasA11y,
   html |-> html]

DocEventShapes ==
  << DocEvent("click", TRUE, 5, TRUE, "ok", TRUE, TRUE, "absent"),
     DocEvent("click", TRUE, 1, TRUE, "ok", TRUE, TRUE, "absent"),
     DocEvent("htmlCapture", TRUE, 3, FALSE, "absent", FALSE, FALSE, "ok"),
     DocEvent("htmlCapture", TRUE, 4, FALSE, "absent", FALSE, FALSE, "short"),
     DocEvent("click", TRUE, 6, TRUE, "absent", FALSE, FALSE, "absent"),
     DocEvent("load", FALSE, 0, FALSE, "absent", FALSE, FALSE, "absent") >>

\* The trace files the verifier is pointed at: no file, a file that is not
\* JSON, or a JSON object with some top-level keys and, under "events", a list.
TraceFiles ==
  {[kind |-> "missing", keys |-> {}, events |-> <<>>],
   [kind |-> "invalid", keys |-> {}, events |-> <<>>]}
  \cup {[kind |-> "object", keys |-> ks, events |-> <<>>] :
          ks \in SUBSET {"id", "startUrl", "title"}}
  \cup {[kind |-> "object", keys |-> ks \cup {"events"},
         events |-> [k \in DOMAIN shp |-> DocEventShapes[shp[k]]]] :
          ks \in SUBSET {"id", "startUrl", "title"},
          shp \in BoundedSeq(DOMAIN DocEventShapes, MaxDocEvents)}

\* What one check method did: the value it returned and the results it added.
Silent(name) == [name |-> name, ret |-> FALSE, added |-> <<>>]

Recorded(name, passed) ==
  [name |-> name, ret |-> passed, added |-> <<[name |-> name, passed |-> passed]>>]

\* "if not self.trace_data": None, or a dict with no key at all.
Falsy(data) == data.kind # "object" \/ data.keys = {}

\* self.trace_data.get("events", [])
EventsOf(data) == IF "events" \in data.keys THEN data.events ELSE <<>>

VerifyFileExists(file) == Recorded("File Exists", file.kind # "missing")

VerifyJsonValid(file) == Recorded("Valid JSON", file.kind = "object")

VerifyTopLevelStructure(data) ==
  IF Falsy(data) THEN Silent("Top-Level Structure")
  ELSE Recorded("Top-Level Structure", Range(REQUIRED_TOP_LEVEL_FIELDS) \subseteq data.keys)

VerifyEventsArray(data) ==
  IF Falsy(data) THEN Silent("Events Array")
  ELSE Recorded("Events Array", Len(EventsOf(data)) > 0)

\* invalid_ratio < 0.1
VerifyEventSchemas(data) ==
  IF Falsy(data) THEN Silent("Event Schemas")
  ELSE LET evs == EventsOf(data)
           Invalid(e) == \/ ~e.has_type \/ ~e.has_timestamp
                         \/ /\ e.type # "htmlCapture" /\ e.has_target
                            /\ (e.bid = "absent" \/ ~e.has_tag)
       IN Recorded("Event Schemas", evs = <<>> \/ 10 * Cardinality({i \in DOMAIN evs : Invalid(evs[i])}) < Len(evs))

\* The number of timestamps smaller than their predecessor.
OutOfOrder(timestamps) ==
  Cardinality({i \in 2..Len(timestamps) : timestamps[i] < timestamps[i - 1]})

\* out_of_order_ratio < 0.05; no timestamp at all is a recorded failure.
VerifyTimestamps(data) ==
  IF Falsy(data) THEN Silent("Timestamp Consistency")
  ELSE LET stamped == SelectSeq(EventsOf(data), LAMBDA e : e.has_timestamp)
           timestamps == [i \in DOMAIN stamped |-> stamped[i].timestamp]
       IN IF timestamps = <<>> THEN Recorded("Timestamp Consistency", FALSE)
          ELSE Recorded("Timestamp Consistency",
                        20 * OutOfOrder(timestamps) < Len(timestamps))

EventsWithTarget(data) ==
  SelectSeq(EventsOf(data), LAMBDA e : e.has_target /\ e.type # "htmlCapture")

\* valid_ratio > 0.9, and 0 when there is no event with a target.
VerifyBids(data) ==
  IF Falsy(data) THEN Silent("BrowserGym IDs")
  ELSE LET targeted == EventsWithTarget(data)
           Valid(e) == e.bid = "ok"
       IN Recorded("BrowserGym IDs",
                   Len(targeted) > 0 /\ 10 * Cardinality({i \in DOMAIN targeted : Valid(targeted[i])}) > 9 * Len(targeted))

\* valid_ratio > 0.8; no capture at all passes with a warning.
VerifyHtmlCaptures(data) ==
  IF Falsy(data) THEN Silent("HTML Captures")
  ELSE LET html_captures == SelectSeq(EventsOf(data), LAMBDA e : e.type = "htmlCapture")
           Valid(e) == e.html = "ok"
       IN IF html_captures = <<>> THEN Recorded("HTML Captures", TRUE)
          ELSE Recorded("HTML Captures",
                        10 * Cardinality({i \in DOMAIN html_captures : Valid(html_captures[i])}) > 8 * Len(html_captures))

\* a11y_ratio > 0.5, and 0 when there is no event with a target.
VerifyA11yData(data) ==
  IF Falsy(data) THEN Silent("Accessibility Data")
  ELSE LET targeted == EventsWithTarget(data)
           HasA11y(e) == e.has_a11y
       IN Recorded("Accessibility Data",
                   Len(targeted) > 0 /\ 2 * Cardinality({i \in DOMAIN targeted : HasA11y(targeted[i])}) > Len(targeted))

\* The checks in the order run_verification calls them.
CheckAt(k, file, data) ==
  CASE k = 1 -> VerifyFileExists(file)
    [] k = 2 -> VerifyJsonValid(file)
    [] k = 3 -> VerifyTopLevelStructure(data)
    [] k = 4 -> VerifyEventsArray(data)
    [] k = 5 -> VerifyEventSchemas(data)
    [] k = 6 -> VerifyTimestamps(data)
    [] k = 7 -> VerifyBids(data)
    [] k = 8 -> VerifyHtmlCaptures(data)
    [] OTHER -> VerifyA11yData(data)

NumChecks == 9

\* _build_report over self.results.
BuildReport(res) ==
  LET failed == Cardinality({i \in DOMAIN res : ~res[i].passed})
  IN [built |-> TRUE, total_checks |-> Len(res), passed_checks |-> Len(res) - failed,
      failed_checks |-> failed, trace_valid |-> (failed = 0)]

NoReport == [built |-> FALSE, total_checks |-> 0, passed_checks |-> 0, failed_checks |-> 0,
             trace_valid |-> FALSE]

NoData == [kind |-> "none", keys |-> {}, events |-> <<>>]

VARIABLES
  vf_pc,        \* the next check of run_verification (1..9), then build, then done
  trace_file,   \* what is at self.trace_path
  trace_data,   \* self.trace_data
  results,      \* self.results
  returns,      \* the value each check method returned, in call order
  report        \* the TraceVerificationReport

VARIABLES
  driver,         \* which driver runs: "eval_baseline", "create_prompt", "test_gpt5", "replay"
  drv_pc,         \* position in the driver
  session,        \* the browser session: "none", "open", "closed"
  step,           \* the loop index
  last,           \* (reward, done, truncated) of the latest env.step
  drv_actions,    \* result["actions"]
  drv_steps,      \* result["steps"]
  drv_reward,     \* result["reward"]
  drv_success,    \* result["success"]
  drv_error,      \* result["error"], "" for None
  model_raised,   \* the latest model call raised
  substituted,    \* the latest env.step was the substituted noop()
  elapsed         \* time.time() - start_time, in ticks

VARIABLES
  pl_pc,            \* position in run_pipeline: the next section (1..6), the summary, the exit
  skip_env,         \* the skip_env argument
  save_reports,     \* the save_reports argument
  artifacts,        \* per verifier: its artifact is "missing", or what verifying it does
  called,           \* the verifiers called so far, in order
  pipeline_report   \* the PipelineReport

VARIABLES
  cmp_pc,        \* position in run_comparison
  tasks,         \* the task tuples handed to pool.map
  chunks,        \* the chunks of task indices no worker has taken yet
  workers,       \* per pool worker: the rest of its chunk, first the task it runs
  all_results,   \* per task: what run_single_eval made of it so far
  comparison     \* the results dict of run_comparison

pipeVars == <<variant, pc, events, html_log, event_log, key_events, pairs, stats,
              bgym_actions, trajectory, exc>>

codecVars == <<codec_pc, encoder, action_str, parsed, encoded>>

scorerVars == <<scorer_pc, actions, milestones, action_idx, matched_milestones,
                matched_action_indices, milestone_details, completed_milestones,
                partial_score, score_percentage>>

driverVars == <<driver, drv_pc, session, step, last, drv_actions, drv_steps, drv_reward,
                drv_success, drv_error, model_raised, substituted, elapsed>>

verifierVars == <<vf_pc, trace_file, trace_data, results, returns, report>>

pipelineVars == <<pl_pc, skip_env, save_reports, artifacts, called, pipeline_report>>

comparisonVars == <<cmp_pc, tasks, chunks, workers, all_results, comparison>>

orchestrationVars == <<pipelineVars, comparisonVars>>

vars == <<pipeVars, codecVars, scorerVars, driverVars, verifierVars, orchestrationVars>>

\* ------------------------------------------------ process_trace, stepwise
PipeInit(script, at, trace, observations, log, evs) ==
  /\ variant = script
  /\ pc = at
  /\ events = trace
  /\ html_log = observations
  /\ event_log = log
  /\ key_events = evs
  /\ pairs = <<>>
  /\ stats = NoStats
  /\ bgym_actions = <<>>
  /\ trajectory = <<>>
  /\ exc = ""

NoParse == [type |-> "unknown", bid |-> <<>>, value |-> <<>>, has_value |-> FALSE]

CodecInit(at, script, s) ==
  /\ codec_pc = at
  /\ encoder = script
  /\ action_str = s
  /\ parsed = NoParse
  /\ encoded = <<>>

ScorerInit(at, trajectory_strs, milestone_list) ==
  /\ scorer_pc = at
  /\ actions = trajectory_strs
  /\ milestones = milestone_list
  /\ action_idx = 1
  /\ matched_milestones = {}
  /\ matched_action_indices = {}
  /\ milestone_details = <<>>
  /\ completed_milestones = 0
  /\ partial_score = 0
  /\ score_percentage = 0

ScorerIdle == ScorerInit("idle", <<>>, <<>>)

NoOutcome == [reward |-> 0, done |-> FALSE, truncated |-> FALSE]

DriverInit(at, script) ==
  /\ driver = script
  /\ drv_pc = at
  /\ session = "none"
  /\ step = 0
  /\ last = NoOutcome
  /\ drv_actions = <<>>
  /\ drv_steps = 0
  /\ drv_reward = 0
  /\ drv_success = FALSE
  /\ drv_error = ""
  /\ model_raised = FALSE
  /\ substituted = FALSE
  /\ elapsed = 0

DriverIdle == DriverInit("idle", "eval_baseline")

VerifierInit(at, file) ==
  /\ vf_pc = at
  /\ trace_file = file
  /\ trace_data = NoData
  /\ results = <<>>
  /\ returns = <<>>
  /\ report = NoReport

VerifierIdle == VerifierInit(0, [kind |-> "missing", keys |-> {}, events |-> <<>>])

PipeIdle == PipeInit("process_trace", "idle", <<>>, <<>>, <<>>, <<>>)

\* ------------------------------------------------------------ run_pipeline
\* The six sections of run_pipeline, in order.
Verifiers == <<"environment", "trace", "actions", "prompt", "pairing", "results">>

\* What calling a verifier on its artifact does: its report says valid, its
\* report says not valid, or the call raises.
VerifierBehaviours == {"passes", "fails", "raises"}

NotRun == [status |-> "none"]

NoSummary == [built |-> FALSE, pipeline_passed |-> FALSE, verifiers_passed |-> 0,
              verifiers_failed |-> 0, verifiers_total |-> 0, success_rate |-> 0]

\* PipelineReport(timestamp, 0, 0, 0).
EmptyPipelineReport ==
  [total_verifiers |-> 0, passed_verifiers |-> 0, failed_verifiers |-> 0,
   verifier_results |-> [v \in Range(Verifiers) |-> NotRun], overall_summary |-> NoSummary]

\* The except branch leaving the counters alone.
RecordVerifierErrorUncounted(rep, name, behaviour) ==
  IF behaviour = "raises"
  THEN [rep EXCEPT !.verifier_results[name] = [status |-> "error"]]
  ELSE [rep EXCEPT !.verifier_results[name] = [status |-> IF behaviour = "passes" THEN "passed" ELSE "failed"],
                   !.total_verifiers = @ + 1,
                   !.passed_verifiers = IF behaviour = "passes" THEN @ + 1 ELSE @,
                   !.failed_verifiers = IF behaviour = "passes" THEN @ ELSE @ + 1]

\* The try/except around one verifier call: the entry of verifier_results
\* and the three counters.
RecordVerifier(rep, name, behaviour) ==
  IF behaviour = "raises"
  THEN [rep EXCEPT !.verifier_results[name] = [status |-> "error"],
                   !.total_verifiers = @ + 1,
                   !.failed_verifiers = @ + 1]
  ELSE [rep EXCEPT !.verifier_results[name] = [status |-> IF behaviour = "passes" THEN "passed" ELSE "failed"],
                   !.total_verifiers = @ + 1,
                   !.passed_verifiers = IF behaviour = "passes" THEN @ + 1 ELSE @,
                   !.failed_verifiers = IF behaviour = "passes" THEN @ ELSE @ + 1]

\* The else branch of a section: no artifact was found.
RecordSkipped(rep, name) == [rep EXCEPT !.verifier_results[name] = [status |-> "skipped"]]

\* round(passed / total * 100, 1), in tenths of a percent (no total up to
\* six puts the quotient half-way between two tenths).
SuccessRate(passed, total) ==
  IF total > 0 THEN (2000 * passed + total) \div (2 * total) ELSE 0

\* report.overall_summary.
OverallSummary(rep) ==
  [built |-> TRUE, pipeline_passed |-> (rep.failed_verifiers = 0),
   verifiers_passed |-> rep.passed_verifiers, verifiers_failed |-> rep.failed_verifiers,
   verifiers_total |-> rep.total_verifiers,
   success_rate |-> SuccessRate(rep.passed_verifiers, rep.total_verifiers)]

\* Positions of run_pipeline after its six sections.
AtSummary == Len(Verifiers) + 1

PipelineReturned == Len(Verifiers) + 2

PipelinePropagated == Len(Verifiers) + 3

PipelineInit(at, skip, save, arts) ==
  /\ pl_pc = at
  /\ skip_env = skip
  /\ save_reports = save
  /\ artifacts = arts
  /\ called = <<>>
  /\ pipeline_report = EmptyPipelineReport

PipelineIdle ==
  PipelineInit(0, TRUE, FALSE, [v \in Range(Verifiers) |-> "missing"])

\* ---------------------------------------------------------- run_comparison
CONDITIONS == <<"baseline", "icl">>

MODELS == <<"gpt-4o", "gpt-4o-mini">>

\* SEEDS, cut to MaxSeeds seeds.
SEEDS == [i \in 1..MaxSeeds |-> i]

\* The three nested loops that build tasks: condition, model, seed.
BuildTasks ==
  [n \in 1..(Len(CONDITIONS) * Len(MODELS) * Len(SEEDS)) |->
     [condition |-> CONDITIONS[((n - 1) \div (Len(MODELS) * Len(SEEDS))) + 1],
      model |-> MODELS[(((n - 1) \div Len(SEEDS)) % Len(MODELS)) + 1],
      seed |-> SEEDS[((n - 1) % Len(SEEDS)) + 1],
      run_id |-> n]]

\* Pool.map's chunksize: divmod(len(tasks), 4 * processes), rounded up.
Chunksize(n) ==
  LET q == n \div (4 * PARALLEL_WORKERS)
  IN IF n % (4 * PARALLEL_WORKERS) # 0 THEN q + 1 ELSE q

\* The task indices 1..n cut into consecutive chunks.
ChunksOf(n) ==
  LET size == Chunksize(n)
      count == IF size = 0 THEN 0 ELSE (n + size - 1) \div size
  IN [c \in 1..count |->
        [k \in 1..(IF c * size <= n THEN size ELSE n - (c - 1) * size) |-> (c - 1) * size + k]]

\* How a run of run_single_eval can end with a result: the episode done with
\* a reward, or one of the failing exits (timeout, repetition, env error,
\* exception), which differ in the error text only; "timeout" stands for them.
RunEndings == {"success", "timeout"}

Pending == [state |-> "pending"]

\* The result dict run_single_eval returns for its task.
RunSingleEval(task, ending) ==
  [state |-> "returned", model |-> task.model, seed |-> task.seed,
   condition |-> task.condition, success |-> (ending = "success"),
   reward |-> IF ending = "success" THEN 1 ELSE 0,
   steps |-> IF ending = "success" THEN 1 ELSE 0,
   error |-> IF ending = "success" THEN "" ELSE ending]

\* The organising loop keeping only the runs that recorded no error.
OrganizeWithoutFailedRuns(res, condition) ==
  SelectSeq(res, LAMBDA r : r.condition = condition /\ r.error = "")

\* for result in all_results: results["evaluations"][result["condition"]].append(result)
Organize(res, condition) == SelectSeq(res, LAMBDA r : r.condition = condition)

RECURSIVE SumSteps(_)
SumSteps(runs) == IF runs = <<>> THEN 0 ELSE runs[1].steps + SumSteps(Tail(runs))

\* results["summary"][condition]; the two averages as <<numerator, denominator>>.
Summarize(runs) ==
  LET successes == Cardinality({i \in DOMAIN runs : runs[i].success})
      ByModel(m) == SelectSeq(runs, LAMBDA r : r.model = m)
  IN [total_runs |-> Len(runs), successes |-> successes,
      success_rate |-> IF runs # <<>> THEN <<successes, Len(runs)>> ELSE <<0, 1>>,
      avg_steps |-> IF runs # <<>> THEN <<SumSteps(runs), Len(runs)>> ELSE <<0, 1>>,
      by_model |-> [m \in {x \in Range(MODELS) : ByModel(x) # <<>>} |->
                      [success_rate |-> <<Cardinality({i \in DOMAIN ByModel(m) : ByModel(m)[i].success}),
                                         Len(ByModel(m))>>,
                       avg_steps |-> <<SumSteps(ByModel(m)), Len(ByModel(m))>>]]]

EmptyComparison ==
  [evaluations |-> [c \in Range(CONDITIONS) |-> <<>>], has_summary |-> FALSE,
   summary |-> [c \in Range(CONDITIONS) |-> Summarize(<<>>)]]

ComparisonInit(at, task_list) ==
  /\ cmp_pc = at
  /\ tasks = task_list
  /\ chunks = ChunksOf(Len(task_list))
  /\ workers = [w \in 1..PARALLEL_WORKERS |-> <<>>]
  /\ all_results = [n \in DOMAIN task_list |-> Pending]
  /\ comparison = EmptyComparison

ComparisonIdle == ComparisonInit("idle", <<>>)

OrchestrationIdle == PipelineIdle /\ ComparisonIdle

CodecIdle == CodecInit("idle", "create_prompt", <<>>)

\* A whole run of process_trace / extract_bgym_actions on a recorded trace.
Init ==
  \E script \in {"process_trace", "create_prompt"}, trace \in Traces(MaxEvents) :
    PipeInit(script, "split", trace, <<>>, <<>>, <<>>) /\ CodecIdle /\ ScorerIdle /\ DriverIdle /\ VerifierIdle
    /\ OrchestrationIdle

\* process_trace.py 317-319: split, then sort both logs.
SplitAndSort ==
  /\ pc = "split" /\ variant = "process_trace"
  /\ LET sp == SplitPT(events)
     IN /\ html_log' = SortByTimestamp(sp.html_log)
        /\ event_log' = SortByTimestamp(sp.event_log)
  /\ pc' = "reduce"
  /\ UNCHANGED <<variant, events, key_events, pairs, stats, bgym_actions, trajectory, exc>>
  /\ UNCHANGED <<codecVars, scorerVars, driverVars, verifierVars, orchestrationVars>>

\* process_trace.py 322: key_events = combine_and_map_events(event_log).
Reduce ==
  /\ pc = "reduce" /\ variant = "process_trace"
  /\ LET r == CombineAndMapEventsPT(event_log)
     IN IF r.raised
        THEN /\ pc' = "raised" /\ exc' = "KeyError"
             /\ UNCHANGED <<key_events, event_log, events>>
        ELSE /\ pc' = "pair" /\ exc' = exc
             /\ key_events' = r.actions
             /\ event_log' = WriteBack(event_log, r.actions)
             /\ events' = WriteBack(events, r.actions)
  /\ UNCHANGED <<variant, html_log, pairs, stats, bgym_actions, trajectory>>
  /\ UNCHANGED <<codecVars, scorerVars, driverVars, verifierVars, orchestrationVars>>

\* process_trace.py 325: pairs = pair_closest_before(key_events, html_log).
Pair ==
  /\ pc = "pair" /\ variant = "process_trace"
  /\ pairs' = PairClosestBefore(key_events, html_log)
  /\ pc' = "stats"
  /\ UNCHANGED <<variant, events, html_log, event_log, key_events, stats, bgym_actions,
                 trajectory, exc>>
  /\ UNCHANGED <<codecVars, scorerVars, driverVars, verifierVars, orchestrationVars>>

\* process_trace.py 327-363: the diagnostic statistics.
Stats ==
  /\ pc = "stats" /\ variant = "process_trace"
  /\ LET st == ComputeStats(event_log, html_log, key_events, pairs)
     IN IF st.ok
        THEN /\ stats' = st /\ pc' = "outputs" /\ exc' = exc
        ELSE /\ stats' = stats /\ pc' = "raised" /\ exc' = "ZeroDivisionError"
  /\ UNCHANGED <<variant, events, html_log, event_log, key_events, pairs, bgym_actions,
                 trajectory>>
  /\ UNCHANGED <<codecVars, scorerVars, driverVars, verifierVars, orchestrationVars>>

\* process_trace.py 389-400: the Action list and the paired trajectory.
Outputs ==
  /\ pc = "outputs" /\ variant = "process_trace"
  /\ bgym_actions' = GenerateBgymActions(key_events)
  /\ trajectory' = GeneratePairedTrajectory(pairs)
  /\ pc' = "done"
  /\ UNCHANGED <<variant, events, html_log, event_log, key_events, pairs, stats, exc>>
  /\ UNCHANGED <<codecVars, scorerVars, driverVars, verifierVars, orchestrationVars>>

\* create_prompt.py 133-134: split, then sort the event log.
SplitAndSortICL ==
  /\ pc = "split" /\ variant = "create_prompt"
  /\ LET sp == SplitICL(events)
     IN /\ html_log' = sp.html_log
        /\ event_log' = SortByTimestamp(sp.event_log)
  /\ pc' = "reduce"
  /\ UNCHANGED <<variant, events, key_events, pairs, stats, bgym_actions, trajectory, exc>>
  /\ UNCHANGED <<codecVars, scorerVars, driverVars, verifierVars, orchestrationVars>>

\* create_prompt.py 136-141: reduce, then normalise.
ExtractICL ==
  /\ pc = "reduce" /\ variant = "create_prompt"
  /\ LET r == CombineAndMapEventsICL(event_log)
     IN /\ key_events' = r.actions
        /\ event_log' = WriteBack(event_log, r.actions)
        /\ events' = WriteBack(events, r.actions)
        /\ bgym_actions' = ExtractBgymActions(r.actions)
  /\ pc' = "done"
  /\ UNCHANGED <<variant, html_log, pairs, stats, trajectory, exc>>
  /\ UNCHANGED <<codecVars, scorerVars, driverVars, verifierVars, orchestrationVars>>

Next == SplitAndSort \/ Reduce \/ Pair \/ Stats \/ Outputs \/ SplitAndSortICL \/ ExtractICL

Spec == Init /\ [][Next]_vars

\* ---------------------------------------------- the Reducer on its own
InitReduce ==
  \E script \in {"process_trace", "create_prompt"}, log \in EventLogs(MaxLog) :
    PipeInit(script, "reduce", log, <<>>, log, <<>>) /\ CodecIdle /\ ScorerIdle /\ DriverIdle /\ VerifierIdle
    /\ OrchestrationIdle

NextReduce == Reduce \/ ExtractICL

SpecReduce == InitReduce /\ [][NextReduce]_vars

\* ----------------------------------------------- the Pairer on its own
InitPair ==
  \E evs \in ActionLists, observations \in ObservationLists :
    PipeInit("process_trace", "pair", <<>>, observations, evs, evs) /\ CodecIdle /\ ScorerIdle /\ DriverIdle /\ VerifierIdle
    /\ OrchestrationIdle

NextPair == Pair

SpecPair == InitPair /\ [][NextPair]_vars

\* ------------------------------------------- decode, then encode again
InitCodec ==
  \E script \in {"create_prompt", "process_trace"}, s \in ActionStrings :
    PipeIdle /\ CodecInit("input", script, s) /\ ScorerIdle /\ DriverIdle /\ VerifierIdle
    /\ OrchestrationIdle

\* parsed = parse_action(s)
Decode ==
  /\ codec_pc = "input"
  /\ parsed' = ParseAction(action_str)
  /\ codec_pc' = "parsed"
  /\ UNCHANGED <<encoder, action_str, encoded, pipeVars, scorerVars, driverVars, verifierVars, orchestrationVars>>

\* The action code of the parsed action; an unparsed string has none.
Encode ==
  /\ codec_pc = "parsed"
  /\ parsed.type # "unknown"
  /\ encoded' = IF encoder = "create_prompt" THEN GenerateActionCode(ParsedToAction(parsed))
                ELSE GenerateContextCode(ParsedToAction(parsed))
  /\ codec_pc' = "encoded"
  /\ UNCHANGED <<encoder, action_str, parsed, pipeVars, scorerVars, driverVars, verifierVars, orchestrationVars>>

NextCodec == Decode \/ Encode

SpecCodec == InitCodec /\ [][NextCodec]_vars

\* ------------------------------------------- evaluate_trajectory, stepwise
InitScorer ==
  \E trajectory_strs \in Trajectories, milestone_list \in MilestoneLists :
    PipeIdle /\ CodecIdle /\ DriverIdle /\ VerifierIdle
    /\ OrchestrationIdle
    /\ ScorerInit("loop", trajectory_strs, milestone_list)

\* One iteration of the loop over parsed_actions.
ScoreAction ==
  /\ scorer_pc = "loop"
  /\ action_idx <= Len(actions)
  /\ LET action == ParseAction(actions[action_idx])
         best == BestMilestone(action, milestones, matched_milestones, Len(milestones))
     IN IF action.type # "unknown" /\ best.idx >= 1 /\ best.score > MatchThreshold
        THEN /\ matched_milestones' = matched_milestones \cup {best.idx}
             /\ matched_action_indices' = matched_action_indices \cup {action_idx}
             /\ partial_score' = partial_score + best.score * milestones[best.idx].weight
             /\ completed_milestones' =
                  IF best.score >= CompletedThreshold THEN completed_milestones + 1
                  ELSE completed_milestones
             /\ milestone_details' =
                  Append(milestone_details,
                         [milestone_id |-> milestones[best.idx].id,
                          completed |-> best.score >= CompletedThreshold,
                          partial_score |-> best.score * milestones[best.idx].weight,
                          action_index |-> action_idx])
        ELSE UNCHANGED <<matched_milestones, matched_action_indices, partial_score,
                         completed_milestones, milestone_details>>
  /\ action_idx' = action_idx + 1
  /\ UNCHANGED <<scorer_pc, actions, milestones, score_percentage, pipeVars, codecVars, driverVars, verifierVars, orchestrationVars>>

\* After the loop: the unmatched milestones, the sort, the percentage.
FinishScoring ==
  /\ scorer_pc = "loop"
  /\ action_idx > Len(actions)
  /\ milestone_details' =
       SortById(milestone_details \o UnmatchedDetails(milestones, matched_milestones))
  /\ score_percentage' =
       IF SumWeights(milestones) > 0
       THEN (partial_score * 100) \div (10 * SumWeights(milestones)) ELSE 0
  /\ scorer_pc' = "done"
  /\ UNCHANGED <<actions, milestones, action_idx, matched_milestones,
                 matched_action_indices, completed_milestones, partial_score,
                 pipeVars, codecVars, driverVars, verifierVars, orchestrationVars>>

NextScorer == ScoreAction \/ FinishScoring

SpecScorer == InitScorer /\ [][NextScorer]_vars

\* -------------------------------------------- the evaluation / replay drivers
Evaluators == {"eval_baseline", "create_prompt"}

\* What the language model answers when its call does not raise.
AgentReplies == {"click('a1')", "fill('a1', 'x')"}

\* What env.step returns when it does not raise.
StepOutcomes == [reward : {0, 1}, done : BOOLEAN, truncated : BOOLEAN]

\* get_agent_action letting the exception's text through as the action.
GetAgentActionNoFallback(raised, reply) == IF raised THEN "error" ELSE reply

\* get_agent_action: the model's reply, or "noop()" when the model call raises.
GetAgentAction(raised, reply) == IF raised THEN "noop()" ELSE reply

\* The repetition test comparing the whole of result["actions"].
RepeatedWholeHistory(acts, n) ==
  /\ Len(acts) >= n
  /\ \A i \in DOMAIN acts : acts[i] = acts[1]

\* The last n entries of result["actions"] are all the same.
Repeated(acts, n) ==
  /\ Len(acts) >= n
  /\ \A i \in (Len(acts) - n + 1)..Len(acts) : acts[i] = acts[Len(acts)]

\* The timeout test reading one tick too late.
TimedOutLate(e) == e > Timeout + 1

\* elapsed > TIMEOUT, the test at the head of the step loop.
TimedOut(e) == e > Timeout

\* How long a model call or an env.step may take, in ticks.
Ticks == 0..(Timeout + 1)

\* The elapsed time dt ticks later; beyond Timeout + 1 every test reads the same.
Later(e, dt) == IF e + dt > Timeout + 1 THEN Timeout + 1 ELSE e + dt

InitDriver ==
  \E script \in Evaluators \cup {"test_gpt5", "replay"} :
    PipeIdle /\ CodecIdle /\ ScorerIdle /\ VerifierIdle /\ DriverInit("make", script)
    /\ OrchestrationIdle

\* env = gym.make(...). In the two run_single_eval it is inside the try; in
\* test_gpt-5.py it has a try of its own that returns; replay_from_json has none.
MakeEnv ==
  /\ drv_pc = "make"
  /\ \E ok \in BOOLEAN :
       IF ok THEN /\ session' = "open" /\ drv_pc' = "reset" /\ drv_error' = drv_error
       ELSE /\ session' = session
            /\ drv_pc' = IF driver \in Evaluators THEN "finally"
                         ELSE IF driver = "test_gpt5" THEN "returned" ELSE "propagated"
            /\ drv_error' = IF driver \in Evaluators THEN "exception" ELSE drv_error
  /\ UNCHANGED <<elapsed, driver, step, last, drv_actions, drv_steps, drv_reward, drv_success,
                 model_raised, substituted, pipeVars, codecVars, scorerVars, verifierVars, orchestrationVars>>

\* obs, info = env.reset(seed). Inside the try in the two run_single_eval,
\* outside any try in test_gpt-5.py and replay_from_json.
ResetEnv ==
  /\ drv_pc = "reset"
  /\ \E ok \in BOOLEAN :
       IF ok THEN /\ drv_pc' = "top" /\ drv_error' = drv_error
       ELSE /\ drv_pc' = IF driver \in Evaluators THEN "finally" ELSE "propagated"
            /\ drv_error' = IF driver \in Evaluators THEN "exception" ELSE drv_error
  /\ UNCHANGED <<elapsed, driver, session, step, last, drv_actions, drv_steps, drv_reward,
                 drv_success, model_raised, substituted, pipeVars, codecVars, scorerVars, verifierVars, orchestrationVars>>

\* The head of the loop: the step limit (run_single_eval only), then the
\* timeout test (the endless loop of test_gpt-5.py is cut at MaxSteps by
\* taking its timeout exit). replay_from_json walks its action list instead.
LoopTop ==
  /\ drv_pc = "top"
  /\ IF driver = "replay"
     THEN /\ \E more \in BOOLEAN :
               drv_pc' = IF more /\ step < MaxSteps THEN "step" ELSE "finally"
          /\ drv_error' = drv_error
     ELSE IF driver \in Evaluators /\ step >= MaxSteps
     THEN drv_pc' = "finally" /\ drv_error' = drv_error
     ELSE IF TimedOut(elapsed) \/ step >= MaxSteps
     THEN /\ drv_pc' = "finally"
          /\ drv_error' = IF driver \in Evaluators THEN "timeout" ELSE drv_error
     ELSE drv_pc' = "agent" /\ drv_error' = drv_error
  /\ UNCHANGED <<elapsed, driver, session, step, last, drv_actions, drv_steps, drv_reward,
                 drv_success, model_raised, substituted, pipeVars, codecVars, scorerVars, verifierVars, orchestrationVars>>

\* action = get_agent_action(...): "noop()" when the model call raises;
\* result["actions"].append(action); then the repetition test (run_single_eval).
AgentAction ==
  /\ drv_pc = "agent"
  /\ \E raised \in BOOLEAN, reply \in AgentReplies, dt \in Ticks :
       LET action == GetAgentAction(raised, reply)
           acts == Append(drv_actions, action)
       IN /\ model_raised' = raised
          /\ elapsed' = Later(elapsed, dt)
          /\ drv_actions' = acts
          /\ IF driver \in Evaluators /\ Repeated(acts, MaxRepeated)
             THEN drv_pc' = "finally" /\ drv_error' = "repeated"
             ELSE drv_pc' = "step" /\ drv_error' = drv_error
  /\ UNCHANGED <<driver, session, step, last, drv_steps, drv_reward, drv_success,
                 substituted, pipeVars, codecVars, scorerVars, verifierVars, orchestrationVars>>

\* env.step(action), or one replayed action followed by page.wait_for_timeout:
\* execute_action_from_json swallows its own exceptions, the wait does not.
EnvStep ==
  /\ drv_pc = "step"
  /\ IF driver = "replay"
     THEN /\ \E ok \in BOOLEAN :
               IF ok THEN drv_pc' = "top" /\ step' = step + 1
               ELSE drv_pc' = "propagated" /\ step' = step
          /\ UNCHANGED <<last, substituted, elapsed>>
     ELSE /\ \E ok \in BOOLEAN, outcome \in StepOutcomes :
               IF ok THEN drv_pc' = "after" /\ last' = outcome
               ELSE drv_pc' = "noop" /\ last' = last
          /\ \E dt \in Ticks : elapsed' = Later(elapsed, dt)
          /\ substituted' = FALSE
          /\ step' = step
  /\ UNCHANGED <<driver, session, drv_actions, drv_steps, drv_reward, drv_success,
                 drv_error, model_raised, pipeVars, codecVars, scorerVars, verifierVars, orchestrationVars>>

\* The substituted env.step("noop()"). When it raises too: eval_baseline
\* records "env_error" and breaks; create_prompt's outer except records the
\* exception; test_gpt-5.py lets it propagate through its finally.
NoopStep ==
  /\ drv_pc = "noop"
  /\ \E ok \in BOOLEAN, outcome \in StepOutcomes :
       IF ok
       THEN /\ drv_pc' = "after" /\ last' = outcome /\ substituted' = TRUE
            /\ drv_error' = drv_error
       ELSE /\ last' = last /\ substituted' = substituted
            /\ drv_pc' = IF driver = "test_gpt5" THEN "finally_raising" ELSE "finally"
            /\ drv_error' = IF driver = "eval_baseline" THEN "env_error"
                            ELSE IF driver = "create_prompt" THEN "exception"
                            ELSE drv_error
  /\ UNCHANGED <<elapsed, driver, session, step, drv_actions, drv_steps, drv_reward, drv_success,
                 model_raised, pipeVars, codecVars, scorerVars, verifierVars, orchestrationVars>>

\* result["steps"] = step + 1; result["reward"] = reward; the done test.
\* test_gpt-5.py keeps no result and tests done only.
AfterStep ==
  /\ drv_pc = "after"
  /\ IF driver \in Evaluators
     THEN /\ drv_steps' = step + 1
          /\ drv_reward' = last.reward
          /\ IF last.done \/ last.truncated
             THEN /\ drv_success' = (last.reward > 0)
                  /\ drv_pc' = "finally" /\ step' = step
             ELSE /\ drv_success' = drv_success
                  /\ drv_pc' = "top" /\ step' = step + 1
     ELSE /\ UNCHANGED <<drv_steps, drv_reward, drv_success>>
          /\ IF last.done THEN drv_pc' = "finally" /\ step' = step
             ELSE drv_pc' = "top" /\ step' = step + 1
  /\ UNCHANGED <<elapsed, driver, session, last, drv_actions, drv_error, model_raised, substituted,
                 pipeVars, codecVars, scorerVars, verifierVars, orchestrationVars>>

\* The finally block (the plain last statement in replay_from_json):
\* env.close() when an env was made.
CloseSession ==
  /\ drv_pc \in {"finally", "finally_raising"}
  /\ session' = IF session = "open" THEN "closed" ELSE session
  /\ drv_pc' = IF drv_pc = "finally" THEN "returned" ELSE "propagated"
  /\ UNCHANGED <<elapsed, driver, step, last, drv_actions, drv_steps, drv_reward, drv_success,
                 drv_error, model_raised, substituted, pipeVars, codecVars, scorerVars, verifierVars, orchestrationVars>>

NextDriver ==
  MakeEnv \/ ResetEnv \/ LoopTop \/ AgentAction \/ EnvStep \/ NoopStep \/ AfterStep
  \/ CloseSession

SpecDriver == InitDriver /\ [][NextDriver]_vars

\* --------------------------------------- TraceVerifier.run_verification
InitVerifier ==
  \E file \in TraceFiles :
    PipeIdle /\ CodecIdle /\ ScorerIdle /\ DriverIdle /\ VerifierInit(1, file)
    /\ OrchestrationIdle

\* One check method call of run_verification; the first two end the run when
\* they return False. verify_json_valid loads self.trace_data.
RunCheck ==
  /\ vf_pc \in 1..NumChecks
  /\ LET data == IF vf_pc = 2 /\ trace_file.kind = "object" THEN trace_file ELSE trace_data
         c == CheckAt(vf_pc, trace_file, data)
     IN /\ trace_data' = data
        /\ results' = results \o c.added
        /\ returns' = Append(returns, [name |-> c.name, value |-> c.ret])
        /\ vf_pc' = IF (vf_pc \in {1, 2} /\ ~c.ret) \/ vf_pc = NumChecks THEN NumChecks + 1
                    ELSE vf_pc + 1
  /\ UNCHANGED <<trace_file, report, pipeVars, codecVars, scorerVars, driverVars, orchestrationVars>>

\* return self._build_report()
BuildTheReport ==
  /\ vf_pc = NumChecks + 1
  /\ report' = BuildReport(results)
  /\ vf_pc' = NumChecks + 2
  /\ UNCHANGED <<trace_file, trace_data, results, returns, pipeVars, codecVars, scorerVars,
                 driverVars, orchestrationVars>>

NextVerifier == RunCheck \/ BuildTheReport

SpecVerifier == InitVerifier /\ [][NextVerifier]_vars

\* ------------------------------------------------------------ run_pipeline
\* The environment has no artifact; each other section has a file that is
\* missing or on which its verifier passes, fails or raises.
InitPipeline ==
  \E skip \in BOOLEAN, save \in BOOLEAN,
     arts \in [Range(Verifiers) -> VerifierBehaviours \cup {"missing"}] :
    /\ arts["environment"] # "missing"
    /\ PipeIdle /\ CodecIdle /\ ScorerIdle /\ DriverIdle /\ VerifierIdle
    /\ PipelineInit(1, skip, save, arts) /\ ComparisonIdle

\* One section of run_pipeline: the environment section unless skip_env, a
\* file section when its artifact exists, else the "skipped" entry.
VerifySection ==
  /\ pl_pc \in DOMAIN Verifiers
  /\ LET name == Verifiers[pl_pc]
     IN IF name = "environment" /\ skip_env
        THEN UNCHANGED <<called, pipeline_report>>
        ELSE IF artifacts[name] = "missing"
        THEN /\ pipeline_report' = RecordSkipped(pipeline_report, name)
             /\ called' = called
        ELSE /\ pipeline_report' = RecordVerifier(pipeline_report, name, artifacts[name])
             /\ called' = Append(called, name)
  /\ pl_pc' = pl_pc + 1
  /\ UNCHANGED <<skip_env, save_reports, artifacts, pipeVars, codecVars, scorerVars,
                 driverVars, verifierVars, comparisonVars>>

\* The final summary, then the pipeline report file when save_reports (the
\* write is outside any try).
FinalSummary ==
  /\ pl_pc = AtSummary
  /\ pipeline_report' = [pipeline_report EXCEPT !.overall_summary = OverallSummary(pipeline_report)]
  /\ \E ok \in BOOLEAN :
       pl_pc' = IF save_reports /\ ~ok THEN PipelinePropagated ELSE PipelineReturned
  /\ UNCHANGED <<skip_env, save_reports, artifacts, called, pipeVars, codecVars, scorerVars,
                 driverVars, verifierVars, comparisonVars>>

NextPipeline == VerifySection \/ FinalSummary

SpecPipeline == InitPipeline /\ [][NextPipeline]_vars

\* ---------------------------------------------------------- run_comparison
InitComparison ==
  /\ PipeIdle /\ CodecIdle /\ ScorerIdle /\ DriverIdle /\ VerifierIdle /\ PipelineIdle
  /\ ComparisonInit("map", BuildTasks)

\* An idle pool worker takes the next chunk of tasks.
TakeChunk ==
  /\ cmp_pc = "map"
  /\ chunks # <<>>
  /\ \E w \in DOMAIN workers :
       /\ workers[w] = <<>>
       /\ workers' = [workers EXCEPT ![w] = Head(chunks)]
  /\ chunks' = Tail(chunks)
  /\ UNCHANGED <<cmp_pc, tasks, all_results, comparison, pipeVars, codecVars, scorerVars,
                 driverVars, verifierVars, pipelineVars>>

\* A worker's run_single_eval call ends: with a result dict, whatever went
\* wrong inside its try, or by raising (load_dotenv and OpenAI(...) are
\* outside the try), which ends the worker's whole chunk.
FinishRun ==
  /\ cmp_pc = "map"
  /\ \E w \in DOMAIN workers :
       /\ workers[w] # <<>>
       /\ \E ending \in RunEndings \cup {"raised"} :
            LET n == Head(workers[w])
            IN IF ending = "raised"
               THEN /\ all_results' = [all_results EXCEPT ![n] = [state |-> "raised"]]
                    /\ workers' = [workers EXCEPT ![w] = <<>>]
               ELSE /\ all_results' = [all_results EXCEPT ![n] = RunSingleEval(tasks[n], ending)]
                    /\ workers' = [workers EXCEPT ![w] = Tail(@)]
  /\ UNCHANGED <<cmp_pc, tasks, chunks, comparison, pipeVars, codecVars, scorerVars,
                 driverVars, verifierVars, pipelineVars>>

\* pool.map returns the list of results, in task order, once every task has
\* one.
MapReturns ==
  /\ cmp_pc = "map"
  /\ \A n \in DOMAIN tasks : all_results[n].state = "returned"
  /\ cmp_pc' = "organize"
  /\ UNCHANGED <<tasks, chunks, workers, all_results, comparison, pipeVars, codecVars,
                 scorerVars, driverVars, verifierVars, pipelineVars>>

\* pool.map re-raises a worker's exception and run_comparison lets it
\* through; leaving the with block terminates the pool.
MapRaises ==
  /\ cmp_pc = "map"
  /\ \E n \in DOMAIN tasks : all_results[n].state = "raised"
  /\ cmp_pc' = "propagated"
  /\ UNCHANGED <<tasks, chunks, workers, all_results, comparison, pipeVars, codecVars,
                 scorerVars, driverVars, verifierVars, pipelineVars>>

\* The loop filing each result under its condition.
OrganizeResults ==
  /\ cmp_pc = "organize"
  /\ comparison' = [comparison EXCEPT
                      !.evaluations = [c \in Range(CONDITIONS) |-> Organize(all_results, c)]]
  /\ cmp_pc' = "summary"
  /\ UNCHANGED <<tasks, chunks, workers, all_results, pipeVars, codecVars, scorerVars,
                 driverVars, verifierVars, pipelineVars>>

\* The summary statistics; return results.
SummarizeResults ==
  /\ cmp_pc = "summary"
  /\ comparison' = [comparison EXCEPT
                      !.has_summary = TRUE,
                      !.summary = [c \in Range(CONDITIONS) |-> Summarize(comparison.evaluations[c])]]
  /\ cmp_pc' = "returned"
  /\ UNCHANGED <<tasks, chunks, workers, all_results, pipeVars, codecVars, scorerVars,
                 driverVars, verifierVars, pipelineVars>>

NextComparison ==
  TakeChunk \/ FinishRun \/ MapReturns \/ MapRaises \/ OrganizeResults \/ SummarizeResults

SpecComparison == InitComparison /\ [][NextComparison]_vars

\* ------------------------------------------------------- the verifier
\* ActionVerifier.verify_step_sequence: no expected step 1..N is missing and
\* no step occurs twice.
VerifyStepSequence(list) ==
  LET steps == [i \in DOMAIN list |-> list[i].step]
      duplicates == {i \in DOMAIN steps : \E k \in 1..(i - 1) : steps[k] = steps[i]}
      gaps == {expected \in 1..Len(list) : expected \notin Range(steps)}
  IN list = <<>> \/ (gaps = {} /\ duplicates = {})

\* =============================================================== claims
Reduced == pc \in {"pair", "done"}

\* The events of log on bid, in order.
OnBid(log, bid) == SelectSeq(log, LAMBDA e : e.has_bid /\ e.bid = bid)

\* The value the Reducer resolved on an emitted event: the data key it
\* overwrites in process_trace, the final_value key it adds in create_prompt.
ResolvedValue(e) == IF variant = "create_prompt" THEN e.final_value ELSE e.data

StepsAreOneToN(list) ==
  /\ \A i \in DOMAIN list : list[i].step \in 1..Len(list)
  /\ \A n \in 1..Len(list) : Cardinality({i \in DOMAIN list : list[i].step = n}) = 1

\* C1: every produced Action list and paired trajectory of length N carries
\* the step values 1..N, each exactly once, and passes the verifier's Step
\* Sequence check.
C1_StepContiguity ==
  /\ StepsAreOneToN(bgym_actions) /\ VerifyStepSequence(bgym_actions)
  /\ StepsAreOneToN(trajectory) /\ VerifyStepSequence(trajectory)

C1_Witness == pc = "done" /\ Len(bgym_actions) >= 2 /\ Len(trajectory) >= 2

\* C2: the Reducer never emits more than one event per bid.
C2_AtMostOnePerBid ==
  \A i, k \in DOMAIN key_events : i # k => key_events[i].bid # key_events[k].bid

C2_Witness ==
  /\ Reduced /\ Len(key_events) = 3 /\ Len(event_log) = 5
  /\ event_log[1].bid = event_log[5].bid

\* C3: input events on one input bid carrying "a", "ab", "abc" in that order
\* reduce to the value "abc".
C3_InputLastValueWins ==
  [][(/\ pc = "reduce"
      /\ [i \in DOMAIN OnBid(event_log, Bid_a1) |-> OnBid(event_log, Bid_a1)[i].data]
           = << <<"a">>, <<"a", "b">>, <<"a", "b", "c">> >>
      /\ pc' # "raised")
     => (/\ Len(OnBid(key_events', Bid_a1)) = 1
         /\ ResolvedValue(OnBid(key_events', Bid_a1)[1]) = <<"a", "b", "c">>)]_vars

\* C4: with several clicks and other event types on a SELECT element, the
\* Reducer emits for it exactly the chronologically last click on it.
C4_SelectLastClickWins ==
  LET onSelect == OnBid(event_log, Bid_s1)
      clicks == OfType(onSelect, {"click"})
  IN (Reduced /\ Cardinality(clicks) >= 2 /\ clicks # DOMAIN onSelect)
     => OnBid(key_events, Bid_s1) = <<onSelect[Max(clicks)]>>

Paired == pc = "stats"

\* The observations strictly earlier than ts / not later than ts.
StrictlyBefore(ts) == {k \in DOMAIN html_log : html_log[k].timestamp < ts}

NotAfter(ts) == {k \in DOMAIN html_log : html_log[k].timestamp <= ts}

SortedInputs == IsSortedByTimestamp(key_events) /\ IsSortedByTimestamp(html_log)

\* C5 as stated: every action with an observation at or before its timestamp
\* is paired with the latest such observation.
C5_LatestNotAfter ==
  (Paired /\ SortedInputs /\ html_log # <<>>)
  => \A i \in DOMAIN pairs :
       NotAfter(pairs[i].event.timestamp) # {}
       => pairs[i].obs_index = Max(NotAfter(pairs[i].event.timestamp))

\* C5 amended: every action with an observation strictly before its timestamp
\* is paired with the latest such observation; an observation at the action's
\* own timestamp does not count as preceding it.
C5_LatestStrictlyBefore ==
  (Paired /\ SortedInputs /\ html_log # <<>>)
  => /\ Len(pairs) = Len(key_events)
     /\ \A i \in DOMAIN pairs :
          /\ pairs[i].event = key_events[i]
          /\ pairs[i].obs = html_log[pairs[i].obs_index]
          /\ StrictlyBefore(key_events[i].timestamp) # {}
             => pairs[i].obs_index = Max(StrictlyBefore(key_events[i].timestamp))

C5_Witness ==
  /\ Paired /\ SortedInputs /\ Len(pairs) = 3
  /\ pairs[3].obs_index = 2 /\ Len(html_log) = 3
  /\ html_log[3].timestamp = pairs[3].event.timestamp

\* C6: on sorted inputs the paired observation indices are non-decreasing.
C6_PairingMonotone ==
  (Paired /\ SortedInputs)
  => \A i, k \in DOMAIN pairs : i < k => pairs[i].obs_index <= pairs[k].obs_index

C6_Witness ==
  /\ Paired /\ SortedInputs /\ Len(pairs) = 3
  /\ pairs[1].obs_index < pairs[2].obs_index /\ pairs[2].obs_index < pairs[3].obs_index

\* C7 as stated: one pair per action, in action order, for every observation
\* list, the empty one included.
C7_OnePairPerAction ==
  Paired => /\ Len(pairs) = Len(key_events)
            /\ \A i \in DOMAIN pairs : pairs[i].event = key_events[i]

\* C7 amended: one pair per action, in action order, whenever the observation
\* list is not empty; no pair at all when it is empty.
C7_OnePairPerActionUnlessNoObservation ==
  Paired => IF html_log = <<>> THEN pairs = <<>>
            ELSE /\ Len(pairs) = Len(key_events)
                 /\ \A i \in DOMAIN pairs : pairs[i].event = key_events[i]

C7_Witness == Paired /\ Len(html_log) = 1 /\ Len(key_events) = 3 /\ Len(pairs) = 3

\* The action strings the claim calls well formed: one quoting style
\* throughout, a blank after the comma, a plain non-empty value.
WellFormedStrings ==
  {BuildActionString(kind, q, bid, <<",", " ">>, q, value) :
     kind \in {"click", "fill", "select_option"}, q \in {<<DQ>>, <<SQ>>},
     bid \in CodecBids, value \in PlainValues}

\* The canonical form the encoders emit: double quotes, a blank after the
\* comma, a non-empty value without a double quote.
CanonicalStrings ==
  {BuildActionString(kind, <<DQ>>, bid, <<",", " ">>, <<DQ>>, value) :
     kind \in {"click", "fill", "select_option"}, bid \in CodecBids,
     value \in {v \in CodecValues : v # <<>> /\ DQ \notin Range(v)}}

\* C8 as stated: decoding a well-formed action string, in either quoting
\* style, and encoding the result gives the string back.
C8_RoundTrip ==
  (codec_pc = "encoded" /\ action_str \in WellFormedStrings) => encoded = action_str

\* C8 amended: decoding a canonical (double-quoted) action string and encoding
\* the result gives the string back; a single-quoted one parses to the same
\* action and is encoded with double quotes.
C8_RoundTripCanonical ==
  /\ (codec_pc = "parsed" /\ action_str \in CanonicalStrings) => parsed.type # "unknown"
  /\ (codec_pc = "encoded" /\ action_str \in CanonicalStrings) => encoded = action_str
  /\ (codec_pc = "encoded" /\ action_str \in WellFormedStrings)
     => encoded \in CanonicalStrings /\ ParseAction(encoded) = parsed

C8_Witness ==
  /\ codec_pc = "encoded" /\ encoder = "create_prompt"
  /\ action_str \in CanonicalStrings /\ parsed.type = "select_option"
  /\ SQ \in Range(parsed.value)

Assigned == {i \in DOMAIN milestone_details : milestone_details[i].action_index >= 1}

\* C9: in one run of evaluate_trajectory no milestone is assigned to more
\* than one action and no action to more than one milestone.
C9_MilestoneExclusivity ==
  /\ \A i, k \in Assigned :
       i # k => /\ milestone_details[i].milestone_id # milestone_details[k].milestone_id
                /\ milestone_details[i].action_index # milestone_details[k].action_index
  /\ \A i, k \in DOMAIN milestone_details :
       i # k => milestone_details[i].milestone_id # milestone_details[k].milestone_id
  /\ Cardinality(Assigned) = Cardinality(matched_milestones)
  /\ Cardinality(Assigned) = Cardinality(matched_action_indices)

C9_Witness ==
  /\ scorer_pc = "done" /\ Len(actions) = 3 /\ Len(milestones) = 2
  /\ actions[1] = actions[2] /\ actions[2] = actions[3]
  /\ milestones[1].action = milestones[2].action
  /\ milestones[1].has_pattern /\ milestones[2].has_pattern
  /\ matched_action_indices = {1, 2}

\* C10: a trace with no events runs to completion without an exception and
\* yields an empty Action list and an empty trajectory.
C10_EmptyTrace ==
  (events = <<>> /\ variant = "process_trace")
  => /\ pc # "raised" /\ exc = ""
     /\ pc = "done" \/ ENABLED Next
     /\ pc = "done" => /\ bgym_actions = <<>> /\ trajectory = <<>>
                       /\ stats.total_pairs = 0 /\ stats.obs_event_ratio_pct = 0
                       /\ stats.valid_pair_ratio_pct = 0

C10_Witness == events = <<>> /\ variant = "process_trace" /\ pc = "done" /\ stats.ok

\* C11: after the split an event is in observations iff it is an htmlCapture,
\* in interactions iff it is not an htmlCapture and carries a target, and in
\* neither list otherwise.
C11_SplitterPartition ==
  pc = "reduce" =>
    /\ Range(html_log) = {e \in Range(events) : e.type = "htmlCapture"}
    /\ Range(event_log) = {e \in Range(events) : e.type # "htmlCapture" /\ e.has_target}

\* The position of the first event on bid in log.
FirstSeen(log, bid) == CHOOSE i \in DOMAIN log :
  /\ log[i].has_bid /\ log[i].bid = bid
  /\ \A k \in 1..(i - 1) : ~(log[k].has_bid /\ log[k].bid = bid)

\* C12: the Reducer's output is in first-seen order: of two emitted events,
\* the one on bid x precedes the one on bid y iff the first event on x occurs
\* before the first event on y in the input.
C12_FirstSeenOrder ==
  Reduced =>
    \A i, k \in DOMAIN key_events :
      i # k => (i < k <=> FirstSeen(event_log, key_events[i].bid)
                            < FirstSeen(event_log, key_events[k].bid))

\* Two emitted events whose own timestamps are in the other order.
C12_Witness ==
  /\ Reduced /\ variant = "process_trace" /\ Len(key_events) >= 2
  /\ key_events[1].timestamp > key_events[2].timestamp

\* C13: the Normalizer maps a reduced event with tag SELECT to select_option
\* with the target's value as option, with tag INPUT/TEXTAREA to fill with the
\* value the Reducer resolved for that bid, and any other tag to click.
C13_NormalizerMapping ==
  pc = "done" =>
    /\ Len(bgym_actions) = Len(key_events)
    /\ \A i \in DOMAIN bgym_actions :
         LET e == key_events[i]
             a == bgym_actions[i].action
         IN /\ a.data_bid = e.bid
            /\ Upper(e.tag) = "SELECT" => a.action = "select_option" /\ a.option = e.value
            /\ Upper(e.tag) \in {"INPUT", "TEXTAREA"}
                 => a.action = "fill" /\ a.value = ResolvedValue(e)
            /\ Upper(e.tag) \notin {"SELECT", "INPUT", "TEXTAREA"} => a.action = "click"

\* C14: partial data loss never raises: whatever target, bid or metadata the
\* non-capture events of a trace lack, the pipeline run ends without an
\* exception.
C14_PartialDataLossNeverRaises == pc # "raised" /\ exc = ""

\* The driver has left its function, by return or by an exception.
Exited == drv_pc \in {"returned", "propagated"}

\* C15: in every driver a session that was created is closed on every exit
\* path of the run.
C15_SessionClosedOnExit == (Exited /\ session # "none") => session = "closed"

\* C16: every check method that returned False has appended a failed result
\* under its name to the report's results.
C16_FailedChecksAreItemized ==
  \A i \in DOMAIN returns :
    ~returns[i].value =>
      \E k \in DOMAIN results : results[k].name = returns[i].name /\ ~results[k].passed

\* The trace file holds a JSON object that lacks a required top-level field.
MissingRequiredField ==
  /\ trace_file.kind = "object"
  /\ ~(Range(REQUIRED_TOP_LEVEL_FIELDS) \subseteq trace_file.keys)

\* C17: for a JSON object that lacks a required top-level field, the empty
\* object included, run_verification reports failure: the report has a failed
\* check and trace_valid is false.
C17_MissingFieldsReported ==
  (report.built /\ MissingRequiredField) => report.failed_checks > 0 /\ ~report.trace_valid

RECURSIVE BidsInOrder(_)
\* The bids of log in first-seen order.
BidsInOrder(log) ==
  IF log = <<>> THEN <<>>
  ELSE LET before == BidsInOrder(SubSeq(log, 1, Len(log) - 1))
           e == log[Len(log)]
       IN IF e.has_bid /\ e.bid \notin Range(before) THEN Append(before, e.bid) ELSE before

\* A reducer that groups all the events purely by bid, without a window.
GroupedPurelyByBid(log) ==
  Concat([k \in DOMAIN BidsInOrder(log) |->
            IF variant = "create_prompt" THEN ReduceBidICL(OnBid(log, BidsInOrder(log)[k]))
            ELSE ReduceBidPT(OnBid(log, BidsInOrder(log)[k]))])

\* Which event an emitted event is: its bid, timestamp and type.
Identity(evs) ==
  [i \in DOMAIN evs |-> [bid |-> evs[i].bid, timestamp |-> evs[i].timestamp,
                         type |-> evs[i].type]]

\* C18: the sliding window has no effect on the Reducer's output: the emitted
\* events are those of a reducer that groups all events purely by bid.
C18_WindowHasNoEffect ==
  Reduced => Identity(key_events) = Identity(GroupedPurelyByBid(event_log))

\* The action's timestamp precedes the timestamp of every observation.
PrecedesEveryObservation(e) == \A k \in DOMAIN html_log : e.timestamp < html_log[k].timestamp

\* C19: with a non-empty (timestamp-sorted) observation list, an action whose
\* timestamp precedes every observation's timestamp is paired with the first
\* observation.
C19_FallbackToFirstObservation ==
  (Paired /\ html_log # <<>> /\ IsSortedByTimestamp(html_log))
  => \A i \in DOMAIN key_events :
       PrecedesEveryObservation(key_events[i])
       => /\ i \in DOMAIN pairs
          /\ pairs[i].event = key_events[i]
          /\ pairs[i].obs.timestamp = html_log[1].timestamp

\* What a step of run_single_eval does about a failing collaborator.
FailureAbsorbed ==
  driver \in Evaluators =>
    /\ (drv_pc = "agent" /\ model_raised') => drv_actions' = Append(drv_actions, "noop()")
    /\ (drv_pc = "noop" /\ drv_pc' = "after") => substituted' /\ drv_error' = ""
    /\ (drv_pc = "after" /\ substituted)
         => /\ drv_steps' = step + 1
            /\ drv_error' = ""
            /\ ~(last.done \/ last.truncated) => drv_pc' = "top" /\ step' = step + 1

\* C20: in run_single_eval a model call that raises yields the action
\* "noop()", and a step whose env.step raised and whose substituted
\* env.step("noop()") succeeded is counted, records no error, and is followed
\* by the next step unless it ended the episode.
C20_CollaboratorFailureAbsorbed == [][FailureAbsorbed]_vars

\* A run that went on to its next step after a raising model call and a
\* substituted noop step.
C20_Witness ==
  /\ driver \in Evaluators /\ drv_pc = "top" /\ substituted /\ model_raised
  /\ step = 1 /\ drv_steps = 1 /\ drv_error = "" /\ drv_actions = <<"noop()">>

\* The n most recently requested agent actions are identical.
LatestIdentical(n) ==
  /\ Len(drv_actions) >= n
  /\ \A i, k \in (Len(drv_actions) - n + 1)..Len(drv_actions) : drv_actions[i] = drv_actions[k]

\* Every model call of the run failed: every requested action is the fallback.
ModelFailedEveryStep ==
  /\ drv_actions # <<>>
  /\ \A i \in DOMAIN drv_actions : drv_actions[i] = "noop()"

\* C21 (as stated): a run of run_single_eval whose model call fails on every
\* step ends after exactly MAX_REPEATED action requests and MAX_REPEATED - 1
\* executed steps.
C21_FailingModelEndsAfterExactlyMaxRepeated ==
  (driver \in Evaluators /\ drv_pc = "returned" /\ ModelFailedEveryStep)
  => Len(drv_actions) = MaxRepeated /\ drv_steps = MaxRepeated - 1

\* C21 (amended): as soon as the MAX_REPEATED latest requested actions are
\* identical the loop has exited with the latest one not executed and the
\* error "repeated"; a run whose model call fails on every step requests at
\* most MAX_REPEATED actions and executes at most MAX_REPEATED - 1 steps, and
\* exactly that many when it is the repetition test that ends it.
C21_RepetitionBoundsFailures ==
  driver \in Evaluators =>
    /\ LatestIdentical(MaxRepeated)
         => /\ drv_pc \in {"finally", "returned"}
            /\ drv_error = "repeated"
            /\ drv_steps = Len(drv_actions) - 1
    /\ ModelFailedEveryStep
         => /\ Len(drv_actions) <= MaxRepeated
            /\ drv_steps <= MaxRepeated - 1
            /\ drv_error = "repeated"
                 => Len(drv_actions) = MaxRepeated /\ drv_steps = MaxRepeated - 1

\* A run ended by the repetition test after the model call failed every time.
C21_Witness ==
  /\ driver \in Evaluators /\ drv_pc = "returned" /\ drv_error = "repeated"
  /\ ModelFailedEveryStep /\ model_raised
  /\ Len(drv_actions) = MaxRepeated /\ drv_steps = MaxRepeated - 1

\* What a step of run_single_eval does once the time is up.
TimeoutEndsTheRun ==
  driver \in Evaluators =>
    /\ (drv_pc = "top" /\ step < MaxSteps /\ elapsed > Timeout)
         => /\ drv_pc' = "finally"
            /\ drv_error' = "timeout"
    /\ drv_error = "timeout"
         => /\ drv_actions' = drv_actions
            /\ drv_steps' = drv_steps
            /\ last' = last
            /\ drv_error' = "timeout"
            /\ drv_pc' = "returned"
            /\ session' = "closed"

\* C22: in run_single_eval, once the elapsed time exceeds TIMEOUT at the
\* start of a step, the error is recorded as a timeout, no further action is
\* requested and no further env.step is executed, and the run ends with the
\* session closed.
C22_TimeoutCheckedEveryStep == [][TimeoutEndsTheRun]_vars

\* A run that executed a step, then found the time up at the start of the
\* next one, and ended.
C22_Witness ==
  /\ driver \in Evaluators /\ drv_pc = "returned" /\ drv_error = "timeout"
  /\ session = "closed" /\ elapsed > Timeout
  /\ drv_steps = 1 /\ Len(drv_actions) = 1

\* The sections of run_pipeline that are over.
SectionsDone == {k \in DOMAIN Verifiers : k < pl_pc}

\* What a section must leave in verifier_results, from its own artifact alone.
OwnOutcome(name) ==
  IF name = "environment" /\ skip_env THEN "none"
  ELSE IF artifacts[name] = "missing" THEN "skipped"
  ELSE IF artifacts[name] = "raises" THEN "error"
  ELSE IF artifacts[name] = "passes" THEN "passed" ELSE "failed"

\* The sections that are over and whose verifier had to be called, in order.
DueVerifiers ==
  LET F[k \in 0..Len(Verifiers)] ==
        IF k = 0 THEN <<>>
        ELSE IF k \in SectionsDone /\ OwnOutcome(Verifiers[k]) \notin {"none", "skipped"}
        THEN Append(F[k - 1], Verifiers[k]) ELSE F[k - 1]
  IN F[Len(Verifiers)]

\* C23: in run_pipeline a verifier that raises is recorded as status "error"
\* and counted as exactly one failed verifier, every verifier whose artifact
\* exists is run whatever the earlier ones did, and each verifier's recorded
\* outcome depends on its own artifact alone.
C23_VerifierErrorIsolated ==
  pl_pc > 0 =>
    /\ \A k \in SectionsDone :
         pipeline_report.verifier_results[Verifiers[k]].status = OwnOutcome(Verifiers[k])
    /\ called = DueVerifiers
    /\ pipeline_report.total_verifiers = Len(called)
    /\ pipeline_report.failed_verifiers =
         Cardinality({k \in SectionsDone : OwnOutcome(Verifiers[k]) \in {"error", "failed"}})
    /\ pipeline_report.passed_verifiers =
         Cardinality({k \in SectionsDone : OwnOutcome(Verifiers[k]) = "passed"})

\* run_pipeline returned after the trace verifier raised and the pairing
\* verifier, whose artifact exists, ran and passed.
C23_Witness ==
  /\ pl_pc = PipelineReturned
  /\ artifacts["trace"] = "raises" /\ artifacts["pairing"] = "passes"
  /\ pipeline_report.verifier_results["trace"].status = "error"
  /\ pipeline_report.verifier_results["pairing"].status = "passed"
  /\ pipeline_report.failed_verifiers = 1

\* The confidence, in tenths, with which a parsed action matches each
\* milestone (0 when it does not match).
Confidences(action) ==
  [k \in DOMAIN milestones |->
     LET m == ActionMatchesMilestone(action, milestones[k])
     IN IF m.matched THEN m.score ELSE 0]

StillUnmatched == DOMAIN milestones \ matched_milestones

\* The highest confidence over the still-unmatched milestones.
TopConfidence(conf) ==
  IF StillUnmatched = {} THEN 0
  ELSE CHOOSE c \in {conf[k] : k \in StillUnmatched} : \A k \in StillUnmatched : conf[k] <= c

\* The lowest-index still-unmatched milestone of confidence top.
TopMilestone(conf, top) ==
  CHOOSE k \in StillUnmatched :
    conf[k] = top /\ \A j \in StillUnmatched : conf[j] = top => k <= j

\* What one iteration of the loop over parsed_actions does with its action.
GreedyAssignment ==
  (scorer_pc = "loop" /\ action_idx <= Len(actions) /\ action_idx' = action_idx + 1)
  => LET conf == Confidences(ParseAction(actions[action_idx]))
         top == TopConfidence(conf)
         winner == TopMilestone(conf, top)
     IN IF top > 3
        THEN /\ matched_milestones' = matched_milestones \cup {winner}
             /\ winner \notin matched_milestones
             /\ matched_action_indices' = matched_action_indices \cup {action_idx}
             /\ Len(milestone_details') = Len(milestone_details) + 1
             /\ LET d == milestone_details'[Len(milestone_details')]
                IN /\ d.milestone_id = milestones[winner].id
                   /\ d.action_index = action_idx
                   /\ d.completed <=> top >= 7
             /\ completed_milestones' - completed_milestones = IF top >= 7 THEN 1 ELSE 0
        ELSE /\ matched_milestones' = matched_milestones
             /\ matched_action_indices' = matched_action_indices
             /\ milestone_details' = milestone_details
             /\ completed_milestones' = completed_milestones

\* C24: in evaluate_trajectory each parsed action is assigned to the
\* highest-confidence still-unmatched milestone (the lowest index on ties) if
\* and only if that confidence strictly exceeds 0.3, and the assigned
\* milestone is marked completed if and only if the confidence is at least 0.7.
C24_GreedyThresholds == [][GreedyAssignment]_vars

\* A run in which a click of confidence 0.3 was left unassigned and a fill of
\* confidence 0.5 was assigned without completing its milestone.
C24_Witness ==
  /\ scorer_pc = "done" /\ Len(milestones) = 2 /\ Len(actions) = 2
  /\ milestones[1].action = "click" /\ ~milestones[1].has_value
  /\ milestones[2].action = "fill" /\ milestones[2].has_pattern
  /\ ParseAction(actions[1]).type = "click"
  /\ matched_milestones = {2} /\ matched_action_indices = {2}
  /\ completed_milestones = 0 /\ partial_score = 5

\* The results have been merged into results["evaluations"].
Merged == cmp_pc \in {"summary", "returned"}

\* The results filed under condition c that are those of task n.
FiledFor(n, c) ==
  {i \in DOMAIN comparison.evaluations[c] :
     /\ comparison.evaluations[c][i].model = tasks[n].model
     /\ comparison.evaluations[c][i].seed = tasks[n].seed
     /\ comparison.evaluations[c][i].condition = tasks[n].condition}

\* C25: whatever the interleaving of the pool's workers, run_comparison merges
\* the results only after every task has finished, and the merged
\* evaluations hold exactly one result per submitted task, filed under the
\* task's own condition, whichever runs failed or timed out.
C25_MergeAfterAllWorkers ==
  /\ (\E c \in Range(CONDITIONS) : comparison.evaluations[c] # <<>>) => Merged
  /\ Merged =>
       /\ chunks = <<>>
       /\ \A w \in DOMAIN workers : workers[w] = <<>>
       /\ \A n \in DOMAIN tasks :
            /\ all_results[n].state = "returned"
            /\ \A c \in Range(CONDITIONS) :
                 Cardinality(FiledFor(n, c)) = IF c = tasks[n].condition THEN 1 ELSE 0
       /\ Len(comparison.evaluations["baseline"]) + Len(comparison.evaluations["icl"])
            = Len(tasks)

\* run_comparison returned with a timed-out and a successful baseline run and
\* a timed-out icl run.
C25_Witness ==
  /\ cmp_pc = "returned" /\ comparison.has_summary
  /\ \E i, k \in DOMAIN comparison.evaluations["baseline"] :
       /\ comparison.evaluations["baseline"][i].error = "timeout"
       /\ comparison.evaluations["baseline"][k].success
  /\ \E i \in DOMAIN comparison.evaluations["icl"] :
       comparison.evaluations["icl"][i].error = "timeout"

\* C26: the Reducer preserves chronological order: on an event list sorted
\* ascending by timestamp the events it emits are sorted ascending by
\* timestamp, so in process_trace the Pairer's actions are sorted and every
\* paired observation other than the fallback (first) one is not later than
\* its action.
C26_ReducerPreservesOrder ==
  (variant = "process_trace" /\ Paired /\ IsSortedByTimestamp(event_log))
  => /\ IsSortedByTimestamp(key_events)
     /\ \A i \in DOMAIN pairs :
          \/ pairs[i].obs.timestamp = html_log[1].timestamp
          \/ pairs[i].obs.timestamp <= pairs[i].event.timestamp

\* The fields a recorded event comes with (final_value is a key the
\* create_prompt Reducer adds for its own output).
RecordedFields(log) ==
  [k \in DOMAIN log |->
     [timestamp |-> log[k].timestamp, type |-> log[k].type, tag |-> log[k].tag,
      bid |-> log[k].bid, value |-> log[k].value, data |-> log[k].data]]

\* The emitted events of a second call of the Reducer on the same list.
SecondCall(log) ==
  IF variant = "create_prompt" THEN CombineAndMapEventsICL(log).actions
  ELSE CombineAndMapEventsPT(log).actions

\* What a call of combine_and_map_events leaves behind.
ReducerLeavesInput ==
  (pc = "reduce" /\ pc' \in {"pair", "done"})
  => /\ RecordedFields(event_log') = RecordedFields(event_log)
     /\ RecordedFields(SecondCall(event_log')) = RecordedFields(key_events')

\* C27: combine_and_map_events leaves every field of every input event
\* unchanged, so a second call on the same event list emits the same events
\* with the same values.
C27_ReducerRepeatable == [][ReducerLeavesInput]_vars

\* C28: every result record run_single_eval returns, on any exit path,
\* passes the Success-Reward Consistency check: success is true if and only
\* if the recorded reward is greater than 0.
C28_SuccessIffPositiveReward ==
  (driver \in Evaluators /\ drv_pc = "returned") => (drv_success <=> drv_reward > 0)

\* The well-formed action strings tried against a milestone.
CandidateActions == WellFormedStrings \cup Range(AgentActions)

\* evaluate_trajectory([a], [m]) assigns the action to the milestone.
AssignedAlone(a, m) ==
  LET action == ParseAction(a)
      best == BestMilestone(action, <<m>>, {}, 1)
  IN action.type # "unknown" /\ best.idx = 1 /\ best.score > MatchThreshold

\* C29: every milestone of a milestone list, a click milestone without a
\* value pattern included, has a well-formed action string that
\* evaluate_trajectory assigns to it.
C29_EveryMilestoneMatchable ==
  scorer_pc = "done"
  => \A k \in DOMAIN milestones : \E a \in CandidateActions : AssignedAlone(a, milestones[k])

\* C30: the paired-trajectory document process_trace produces is
\* consistent: stats.total_pairs is the trajectory length and
\* valid_pairs <= total_pairs <= total_key_events <= total_raw_events, so it
\* passes the PairingVerifier Stats Consistency check.
C30_StatsConsistent ==
  (variant = "process_trace" /\ pc = "done")
  => /\ stats.total_pairs = Len(trajectory)
     /\ stats.valid_pairs <= stats.total_pairs
     /\ stats.total_pairs <= stats.total_key_events
     /\ stats.total_key_events <= stats.total_raw_events

\* A document with two pairs, one of them valid, made from three raw events
\* and more observations than pairs.
C30_Witness ==
  /\ variant = "process_trace" /\ pc = "done"
  /\ Len(trajectory) = 2 /\ stats.total_pairs = 2 /\ stats.valid_pairs = 1
  /\ stats.total_key_events = 2 /\ stats.total_raw_events = 3

====
